---------------------------- MODULE Spec2Model ----------------------------
(***************************************************************************)
(* Domain-event fan-out and notification/email dispatch pipeline of        *)
(* capmatch (src/gcp-services): the event claim & dispatch loop            *)
(* (notify-fan-out/main.py), the per-event-type handlers                   *)
(* (notify-fan-out/handlers.py) over the notifications and pending_emails  *)
(* tables, and the immediate and hourly email dispatchers                  *)
(* (email-notifications/main_instant.py, main_hourly.py).                  *)
(*                                                                         *)
(* Four specifications share the module:                                   *)
(*   Spec         the dispatch loop run by overlapping workers             *)
(*   SpecMail     the email dispatchers over the pending_emails queue      *)
(*   SpecHandlers the handlers of every event type, run and run again      *)
(*   SpecChat     chat messages handled one after another                  *)
(*                                                                         *)
(* Store calls are single atomic statements of the shared store.  A store  *)
(* call succeeds unless stated otherwise at its definition.                *)
(***************************************************************************)
EXTENDS Integers, Sequences, FiniteSets, TLC

(***************************************************************************)
(* Bounds of the model.                                                    *)
(***************************************************************************)
NEvents == 3         \* domain events appended to the log
BATCH_SIZE == 2      \* Config.BATCH_SIZE (500 in the source), scaled down

NMail == 3           \* rows queued in pending_emails
MAIL_BATCH_SIZE == 2 \* BATCH_SIZE of both email dispatchers (500), scaled down

NPrefs == 2          \* rows in user_notification_preferences (SpecPrefs)
NStamp == 2          \* messages posted in the thread (SpecNudge)
NRequests == 2       \* update-member-permissions requests (SpecPerms)
NResumeEvents == 2   \* resume nudge events inserted (SpecResume)
NHEvents == 1        \* events of any type handed to the handlers
NAccess == 1         \* upload and permission events handled (SpecAccess)
NDigestEvents == 2   \* domain events the digest reads (SpecDigest)
NChannels == 4       \* watch channels ever created (SpecRenew)
NRaceChat == 2       \* chat messages handled by overlapping runs (SpecChatRace)
NRequeue == 1        \* queue_email calls for a key already queued (SpecRequeue)
NChat == 4           \* chat messages posted
LOOKUP_LIMIT == 2    \* .limit(50) of the chat lookup, scaled down

DRY_RUN == FALSE     \* Config.DRY_RUN of the deployed job

\* two invocations of the job by the external scheduler; they may overlap
\* or follow one another
Workers == {"run1", "run2"}
EventIds == 1..NEvents

VARIABLES
    \* ---- dispatch loop (Spec) ----
    appended,     \* number of domain events in the log (ids 1..appended)
    raises,       \* raises[e]: the handler of event e raises an exception
    evtype,       \* evtype[e]: event_type of event e
    write_fails,  \* write_fails[e]: the store refuses the handler's writes
    written,      \* events whose dispatch wrote a notification or an email
    np,           \* notification_processing: event id -> processing_status
    pc,           \* pc[w]: position of worker w in main()
    batch,        \* batch[w]: the events returned by its last poll
    idx,          \* idx[w]: index in batch[w] of the event being processed
    claimed,      \* claimed[e]: times mark_event_processing(e) returned True
    dispatched,   \* dispatched[e]: times dispatch_event ran for e
    orphaned,     \* events whose worker crashed after claiming them
    stuckSeen     \* stuckSeen[w]: failed/orphaned events at w's last poll

VARIABLES
    \* ---- pending_emails queue and its dispatchers (SpecMail) ----
    pending_emails, \* the table: sequence of rows, a row's id is its index
    mkind,        \* mkind[w]: which dispatcher run w is ("instant"/"hourly")
    mpc,          \* mpc[w]: position of run w in its main()
    mbatch,       \* mbatch[w]: ids returned by its last poll
    gi,           \* gi[w]: index of the current email / user group
    ci,           \* ci[w]: index in the group of the next row to claim
    mclaimed,     \* mclaimed[w]: claimed_emails of the current group
    owner,        \* owner[id]: runs whose mark_email_processing(id) was True,
                  \*            one entry per True result
    sendCalls,    \* sendCalls[id]: send_email calls that carried row id
    digests,      \* digests[w][u]: send_email calls of run w for user u
    skipped       \* skipped[w]: users whose group run w failed before send

VARIABLES
    \* ---- notifications table and the handlers (SpecHandlers, SpecChat) ----
    notifications, \* the table: sequence of rows, a row's id is its index
    prefs,        \* user_notification_preferences: sequence of rows
    hevents,      \* the domain events handed to the handlers, id = index
    hev,          \* hev[x]: event whose handler executor x runs (0: idle)
    hplan,        \* hplan[x]: store calls the execution has still to make
    hrerun,       \* hrerun[x]: x runs a handler that already ran to its end
    attempts,     \* attempts[e]: executions of the handler started for e
    finished,     \* finished[e]: executions that returned
    overlapped,   \* events with two executions of the handler in flight
    requeued      \* <<event, user>> keys queue_email found already present

VARIABLES
    \* ---- preference resolution (SpecPrefs) ----
    lastCheck     \* the last mute check: its arguments and its result

VARIABLES
    \* ---- unread-thread nudge scheduler (SpecNudge) ----
    latestMsg,    \* timestamp of the latest message of the thread (0: none)
    msgAge,       \* "fresh" or "stale": is it older than the threshold
    lastRead,     \* lastRead[u]: last_read_at of participant u
    staleLog,     \* unread_thread_stale_log: sequence of rows
    nudgeEvents,  \* thread_unread_stale domain events inserted
    npc,          \* npc[n]: position of scheduler run n
    nlist,        \* nlist[n]: entries of stale_unread_list still to process
    nscan,        \* nscan[n]: stale_unread_list as run n built it
    nraised       \* nraised[n]: entries whose preference lookup raised

VARIABLES
    \* ---- update_member_permissions (SpecPerms) ----
    project_access_grants, \* projects the member has a grant row for
    permissions,           \* permissions[r]: the member's row on resource r
    permEvents,            \* domain events inserted by the endpoint
    requests,              \* requests served
    snap                   \* stores and snapshots of the last request

VARIABLES
    \* ---- resume-incomplete nudge scheduler (SpecResume) ----
    rnow,          \* the clock, in ms since the project was created
    last_edit,     \* last resume edit (the creation time before any edit)
    complete,      \* the resume is 100% complete
    resumeNudges,  \* the user's resume_incomplete_nudge notifications
    resumeEvents,  \* resume_incomplete_nudge domain events inserted
    rdelivered,    \* events the fan-out has handled
    lastRun        \* what the last process_resume_nudge call did

VARIABLES
    \* ---- sliding-window email digest (SpecDigest) ----
    dnow,          \* the clock, in half days
    domain_events, \* the event log the digest reads: sequence of rows
    email_digest_processed, \* markers <<event_id, user_id, digest_date>>
    dpc,           \* dpc[r]: position of digest run r
    dusers,        \* dusers[r]: users run r has still to process
    ddate,         \* ddate[r]: digest_date of run r
    dend,          \* dend[r]: window_end of run r; the window is 24 h long
    dfound,        \* dfound[r]: recipient_events of the current user
    dknown,        \* dknown[r]: the user's markers of ddate[r] when r fetched
    digestLog      \* digests sent: user, date, events, markers at the fetch

\* handlers executed again for an event whose emails are queued
VARIABLES
    requeues      \* queue_email calls made for a key that had a row

\* two fan-out workers handling resume nudge events
VARIABLES
    rtaken,       \* the resume nudge events a worker has claimed
    rwork         \* rwork[x]: the event worker x is handling and what its
                  \*           tier lookup found

\* find_root_for_resource / find_root_for_resource_after over any rows
VARIABLES
    walk          \* the walk in progress: the rows it reads, current,
                  \* visited, whether the loop body ran twice for one
                  \* resource, and what was returned

\* _send_with_throttle_retry
VARIABLES
    snd           \* the send in progress: implementation, position, attempt,
                  \* provider calls made, waits slept, latest provider
                  \* outcome, what send_email returned, emails handed in

\* renew-calendar-watches
VARIABLES
    watch,        \* watch[c]: watch_channel_id of connection c (0: none)
    due,          \* due[c]: watch_expiration is within 24 hours
    live,         \* the channels the calendar provider has active
    chanSeq,      \* channels created so far
    wpc,          \* position of the renewal job
    wconns,       \* the rows the job fetched
    wi,           \* the row the job is at
    wlog          \* the calls the job made, in order, with their outcome

mailVars == <<pending_emails, mkind, mpc, mbatch, gi, ci, mclaimed, owner,
              sendCalls, digests, skipped>>

loopVars == <<appended, raises, evtype, write_fails, written, np, pc, batch,
              idx, claimed, dispatched, orphaned, stuckSeen>>

handlerVars == <<notifications, prefs, hevents, hev, hplan, hrerun,
                 attempts, finished, overlapped, requeued>>

\* the dispatchers' own state: mailVars without the table
mailCtl == <<mkind, mpc, mbatch, gi, ci, mclaimed, owner, sendCalls,
             digests, skipped>>

prefVars == <<lastCheck>>

nudgeVars == <<latestMsg, msgAge, lastRead, staleLog, nudgeEvents, npc,
               nlist, nscan, nraised>>

\* the variables of the parts added around the core pipeline
permVars == <<project_access_grants, permissions, permEvents, requests, snap>>

resumeVars == <<rnow, last_edit, complete, resumeNudges, resumeEvents,
                rdelivered, lastRun>>

digestVars == <<dnow, domain_events, email_digest_processed, dpc, dusers,
                ddate, dend, dfound, dknown, digestLog>>

renewVars == <<watch, due, live, chanSeq, wpc, wconns, wi, wlog>>

fanVars == <<rtaken, rwork>>

laterVars == <<digestVars, renewVars, requeues, fanVars, snd, walk>>

otherVars == <<prefVars, nudgeVars, permVars, resumeVars, laterVars>>

outsideDigest == <<loopVars, mailVars, handlerVars, prefVars, nudgeVars,
                   permVars, resumeVars, renewVars, requeues, fanVars, snd, walk>>

outsideRenew == <<loopVars, mailVars, handlerVars, prefVars, nudgeVars,
                  permVars, resumeVars, digestVars, requeues, fanVars, snd, walk>>

vars == <<loopVars, mailVars, handlerVars, otherVars>>

\* the variables each part of the pipeline leaves alone
outsideLoop == <<mailVars, handlerVars, otherVars>>
outsideMail == <<loopVars, handlerVars, otherVars>>
outsideHandlers == <<loopVars, mailCtl, otherVars>>

\* the handlers' state without the preference table
handlerCtl == <<notifications, hevents, hev, hplan, hrerun, attempts,
                finished, overlapped, requeued>>

-----------------------------------------------------------------------------
(***************************************************************************)
(* Event store: notification_processing                                    *)
(***************************************************************************)

\* get_pending_notification_events(p_limit): the unclaimed events (no
\* processing record), oldest first, at most p_limit of them.
Unclaimed(n) ==
    LET F[i \in 0..n] ==
            IF i = 0 THEN << >>
            ELSE IF np[i] = "none" THEN Append(F[i - 1], i) ELSE F[i - 1]
    IN  F[n]

get_pending_events(limit) ==
    LET all == Unclaimed(appended)
    IN  IF Len(all) <= limit THEN all ELSE SubSeq(all, 1, limit)

\* a claim written as an upsert: it lands whatever row the event has
mark_event_processing_upsert(e) ==
    [ok |-> TRUE, np |-> [np EXCEPT ![e] = "processing"]]

\* a claim that also takes over an event whose row is 'failed'
mark_event_processing_retry(e) ==
    [ok |-> np[e] \in {"none", "failed"},
     np |-> IF np[e] \in {"none", "failed"}
            THEN [np EXCEPT ![e] = "processing"] ELSE np]

\* INSERT of a 'processing' row with upsert=False: the insert lands only
\* when the event has no row yet (duplicate key otherwise); the result is
\* True exactly when a row was inserted.
mark_event_processing(e) ==
    [ok |-> np[e] = "none",
     np |-> IF np[e] = "none" THEN [np EXCEPT ![e] = "processing"] ELSE np]

mark_event_completed(e) ==
    IF np[e] = "none" THEN np ELSE [np EXCEPT ![e] = "completed"]

\* The update payload carries an un-executed rpc("increment") builder as
\* retry_count; when the client refuses to serialise it the exception is
\* logged and swallowed and nothing is written (lands = FALSE).
mark_event_failed(e, lands) ==
    IF np[e] = "none" \/ ~lands THEN np ELSE [np EXCEPT ![e] = "failed"]

-----------------------------------------------------------------------------
(***************************************************************************)
(* Dispatch loop: main() of notify-fan-out                                 *)
(***************************************************************************)

\* the keys of handlers_map in dispatch_event
handlers_map ==
    {"document_uploaded", "chat_message_sent", "thread_unread_stale",
     "meeting_invited", "meeting_updated", "meeting_reminder",
     "resume_incomplete_nudge", "invite_accepted", "project_access_granted",
     "project_access_changed", "project_access_revoked",
     "document_permission_granted", "document_permission_changed"}

\* the event types the loop meets here: one with a handler, one without
LoopEventTypes == {"document_uploaded", "meeting_cancelled"}

\* the attributes of the events and the record of what their dispatch wrote
loopEvents == <<raises, evtype, write_fails, written>>

Cur(w) == batch[w][idx[w]]

\* end of the for-body: next event, or the end-of-batch test
Advance(w) ==
    IF idx[w] < Len(batch[w])
    THEN /\ idx' = [idx EXCEPT ![w] = idx[w] + 1]
         /\ pc' = [pc EXCEPT ![w] = "claim"]
         /\ batch' = batch
    ELSE /\ idx' = [idx EXCEPT ![w] = 0]
         /\ batch' = [batch EXCEPT ![w] = << >>]
         /\ pc' = [pc EXCEPT ![w] =
                     IF Len(batch[w]) < BATCH_SIZE THEN "done" ELSE "poll"]

\* a mutation or a scheduler appends a domain event: its type, and what
\* will happen in its handler (it raises, or the store refuses its writes)
AppendEvent(r, t, wf) ==
    /\ appended < NEvents
    /\ t \notin handlers_map => ~r /\ ~wf
    /\ ~(r /\ wf)
    /\ appended' = appended + 1
    /\ raises' = [raises EXCEPT ![appended + 1] = r]
    /\ evtype' = [evtype EXCEPT ![appended + 1] = t]
    /\ write_fails' = [write_fails EXCEPT ![appended + 1] = wf]
    /\ UNCHANGED <<written, np, pc, batch, idx, claimed, dispatched, orphaned,
                   stuckSeen>>
    /\ UNCHANGED outsideLoop

\* the external scheduler invokes the job
StartRun(w) ==
    /\ pc[w] = "idle"
    /\ pc' = [pc EXCEPT ![w] = "poll"]
    /\ UNCHANGED <<appended, loopEvents, np, batch, idx, claimed, dispatched,
                   orphaned, stuckSeen>>
    /\ UNCHANGED outsideLoop

Poll(w) ==
    /\ pc[w] = "poll"
    /\ LET events == get_pending_events(BATCH_SIZE)
       IN  /\ batch' = [batch EXCEPT ![w] = events]
           /\ idx' = [idx EXCEPT ![w] = IF events = << >> THEN 0 ELSE 1]
           /\ pc' = [pc EXCEPT ![w] =
                       IF events = << >> THEN "done" ELSE "claim"]
    /\ stuckSeen' = [stuckSeen EXCEPT ![w] =
                       {e \in 1..appended : np[e] = "failed"} \cup orphaned]
    /\ UNCHANGED <<appended, loopEvents, np, claimed, dispatched, orphaned>>
    /\ UNCHANGED outsideLoop

\* what the loop gets from db.mark_event_processing(event.id): the result
\* of the insert, or False with nothing written when the call raised for
\* another reason than a duplicate key (store_ok = FALSE)
claim_result(e, store_ok) ==
    IF store_ok THEN mark_event_processing(e) ELSE [ok |-> FALSE, np |-> np]

Claim(w, store_ok) ==
    /\ pc[w] = "claim"
    /\ LET r == claim_result(Cur(w), store_ok)
       IN  /\ np' = IF r.ok /\ DRY_RUN
                    THEN [r.np EXCEPT ![Cur(w)] = "completed"]
                    ELSE r.np
           /\ claimed' = [claimed EXCEPT ![Cur(w)] =
                            @ + (IF r.ok THEN 1 ELSE 0)]
           /\ IF r.ok /\ ~DRY_RUN
              THEN /\ pc' = [pc EXCEPT ![w] = "dispatch"]
                   /\ UNCHANGED <<batch, idx>>
              ELSE Advance(w)
    /\ UNCHANGED <<appended, loopEvents, dispatched, orphaned, stuckSeen>>
    /\ UNCHANGED outsideLoop

\* dispatch_event with a handlers_map[event.event_type] lookup: an event
\* type without a handler raises
dispatch_event_result_strict(e) ==
    [raised |-> evtype[e] \notin handlers_map \/ raises[e],
     wrote |-> evtype[e] \in handlers_map /\ ~raises[e] /\ ~write_fails[e]]

\* what dispatch_event(db, event) does for the loop: no handler, (0, 0)
\* is returned; else the handler raises, or returns after its store calls,
\* which catch a store error and return False
dispatch_event_result(e) ==
    IF evtype[e] \notin handlers_map
    THEN [raised |-> FALSE, wrote |-> FALSE]
    ELSE [raised |-> raises[e], wrote |-> ~raises[e] /\ ~write_fails[e]]

Dispatch(w) ==
    /\ pc[w] = "dispatch"
    /\ dispatched' = [dispatched EXCEPT ![Cur(w)] = @ + 1]
    /\ LET r == dispatch_event_result(Cur(w))
       IN  /\ pc' = [pc EXCEPT ![w] = IF r.raised THEN "fail" ELSE "complete"]
           /\ written' = IF r.wrote THEN written \cup {Cur(w)} ELSE written
    /\ UNCHANGED <<appended, raises, evtype, write_fails, np, batch, idx,
                   claimed, orphaned,
                   stuckSeen>>
    /\ UNCHANGED outsideLoop

Complete(w) ==
    /\ pc[w] = "complete"
    /\ np' = mark_event_completed(Cur(w))
    /\ Advance(w)
    /\ UNCHANGED <<appended, loopEvents, claimed, dispatched, orphaned,
                   stuckSeen>>
    /\ UNCHANGED outsideLoop

Fail(w, lands) ==
    /\ pc[w] = "fail"
    /\ np' = mark_event_failed(Cur(w), lands)
    /\ Advance(w)
    /\ UNCHANGED <<appended, loopEvents, claimed, dispatched, orphaned,
                   stuckSeen>>
    /\ UNCHANGED outsideLoop

\* the process dies between claiming an event and finalising it
Crash(w) ==
    /\ pc[w] \in {"dispatch", "complete", "fail"}
    /\ orphaned' = orphaned \cup {Cur(w)}
    /\ pc' = [pc EXCEPT ![w] = "crashed"]
    /\ batch' = [batch EXCEPT ![w] = << >>]
    /\ idx' = [idx EXCEPT ![w] = 0]
    /\ UNCHANGED <<appended, loopEvents, np, claimed, dispatched, stuckSeen>>
    /\ UNCHANGED outsideLoop

LoopInit ==
    /\ appended = 0
    /\ raises = [e \in EventIds |-> FALSE]
    /\ evtype = [e \in EventIds |-> "document_uploaded"]
    /\ write_fails = [e \in EventIds |-> FALSE]
    /\ written = {}
    /\ np = [e \in EventIds |-> "none"]
    /\ pc = [w \in Workers |-> "idle"]
    /\ batch = [w \in Workers |-> << >>]
    /\ idx = [w \in Workers |-> 0]
    /\ claimed = [e \in EventIds |-> 0]
    /\ dispatched = [e \in EventIds |-> 0]
    /\ orphaned = {}
    /\ stuckSeen = [w \in Workers |-> {}]

LoopNext ==
    \/ \E r \in BOOLEAN, t \in LoopEventTypes, wf \in BOOLEAN :
           AppendEvent(r, t, wf)
    \/ \E w \in Workers : StartRun(w)
    \/ \E w \in Workers : Poll(w)
    \/ \E w \in Workers : Claim(w, TRUE)
    \/ \E w \in Workers : Dispatch(w)
    \/ \E w \in Workers : Complete(w)
    \/ \E w \in Workers, lands \in BOOLEAN : Fail(w, lands)
    \/ \E w \in Workers : Crash(w)

-----------------------------------------------------------------------------
(***************************************************************************)
(* pending_emails: the queue written by the handlers (queue_email) and     *)
(* consumed by the dispatchers                                             *)
(***************************************************************************)

Recipients == {"bob", "cy"}
MailRuns == {"m1", "m2"}
MailIds == 1..NMail

\* ids of the rows with this (event_id, user_id)
RowsOf(tbl, e, u) ==
    {i \in 1..Len(tbl) : tbl[i].event_id = e /\ tbl[i].user_id = u}

\* a plain INSERT instead of the upsert
queue_email_insert(tbl, u, e, etype, dtype) ==
    Append(tbl, [user_id |-> u, event_id |-> e, event_type |-> etype,
                 delivery_type |-> dtype, status |-> "pending"])

\* upsert on_conflict="event_id,user_id": the row with this key is
\* overwritten with the given columns (status 'pending' among them), else a
\* new row is inserted.
queue_email(tbl, u, e, etype, dtype) ==
    IF RowsOf(tbl, e, u) = {}
    THEN Append(tbl, [user_id |-> u, event_id |-> e, event_type |-> etype,
                      delivery_type |-> dtype, status |-> "pending"])
    ELSE [i \in 1..Len(tbl) |->
            IF i \in RowsOf(tbl, e, u)
            THEN [user_id |-> u, event_id |-> e, event_type |-> etype,
                  delivery_type |-> dtype, status |-> "pending"]
            ELSE tbl[i]]

\* rows of one delivery type with status 'pending', by created_at, limited
PendingIds(tbl, dtype, n) ==
    LET F[i \in 0..n] ==
            IF i = 0 THEN << >>
            ELSE IF tbl[i].delivery_type = dtype /\ tbl[i].status = "pending"
                 THEN Append(F[i - 1], i) ELSE F[i - 1]
    IN  F[n]

Limit(sq, limit) == IF Len(sq) <= limit THEN sq ELSE SubSeq(sq, 1, limit)

get_pending_immediate_emails(limit) ==
    Limit(PendingIds(pending_emails, "immediate", Len(pending_emails)), limit)

get_pending_aggregated_emails(limit) ==
    Limit(PendingIds(pending_emails, "aggregated", Len(pending_emails)), limit)

\* an UPDATE ... WHERE id = email_id with no condition on the status
mark_email_processing_unconditional(id) ==
    [ok |-> TRUE,
     tbl |-> [pending_emails EXCEPT ![id].status = "processing"]]

\* UPDATE ... SET status='processing' WHERE id = email_id AND
\* status = 'pending'; True when a row was updated.
mark_email_processing(id) ==
    [ok |-> pending_emails[id].status = "pending",
     tbl |-> IF pending_emails[id].status = "pending"
             THEN [pending_emails EXCEPT ![id].status = "processing"]
             ELSE pending_emails]

mark_email_sent(tbl, id) == [tbl EXCEPT ![id].status = "sent"]

mark_email_failed(tbl, id) == [tbl EXCEPT ![id].status = "failed"]

\* for email in claimed_emails: db.mark_email_sent / mark_email_failed
MarkAll(tbl, ids, status) ==
    [i \in 1..Len(tbl) |->
        IF \E k \in 1..Len(ids) : ids[k] = i
        THEN (IF status = "sent" THEN mark_email_sent(tbl, i)
              ELSE mark_email_failed(tbl, i))[i]
        ELSE tbl[i]]

(***************************************************************************)
(* Grouping of a batch by user (emails_by_user, a dict in insertion order) *)
(***************************************************************************)

UserOf(id) == pending_emails[id].user_id

\* users of the batch in order of first appearance
GroupUsers(b) ==
    LET F[i \in 0..Len(b)] ==
            IF i = 0 THEN << >>
            ELSE IF \E k \in 1..(i - 1) : UserOf(b[k]) = UserOf(b[i])
                 THEN F[i - 1] ELSE Append(F[i - 1], UserOf(b[i]))
    IN  F[Len(b)]

\* emails_by_user[u]: the batch's rows of user u, in batch order
GroupRows(b, u) ==
    LET F[i \in 0..Len(b)] ==
            IF i = 0 THEN << >>
            ELSE IF UserOf(b[i]) = u THEN Append(F[i - 1], b[i]) ELSE F[i - 1]
    IN  F[Len(b)]

SeqToSet(sq) == {sq[k] : k \in 1..Len(sq)}

(***************************************************************************)
(* The dispatchers: main() of main_instant.py and of main_hourly.py        *)
(***************************************************************************)

\* what happens between a won claim and the finalising writes
Outcomes == {"no_profile", "render_raises", "rejected", "sent"}

\* a dispatcher that hands every claimed item to send_email
CallsSendAlways(o) == TRUE

\* send_email is reached only past the profile check and the rendering
CallsSend(o) == o \in {"rejected", "sent"}

FinalStatus(o) == IF o = "sent" THEN "sent" ELSE "failed"

\* a handler queues an email for a fresh (event, user)
Enqueue(u, dtype) ==
    /\ Len(pending_emails) < NMail
    /\ pending_emails' =
          queue_email(pending_emails, u, Len(pending_emails) + 1,
                      IF dtype = "immediate" THEN "project_access_granted"
                      ELSE "document_uploaded", dtype)
    /\ UNCHANGED <<mkind, mpc, mbatch, gi, ci, mclaimed, owner, sendCalls,
                   digests, skipped>>
    /\ UNCHANGED outsideMail

\* the external scheduler invokes one of the two jobs
MailStart(w, k) ==
    /\ mpc[w] = "idle"
    /\ mkind' = [mkind EXCEPT ![w] = k]
    /\ mpc' = [mpc EXCEPT ![w] = "poll"]
    /\ UNCHANGED <<pending_emails, mbatch, gi, ci, mclaimed, owner,
                   sendCalls, digests, skipped>>
    /\ UNCHANGED outsideMail

\* number of items the for loop of run w iterates over
Items(w) == IF mkind[w] = "instant" THEN Len(mbatch[w])
            ELSE Len(GroupUsers(mbatch[w]))

\* end of the for-body: next item, or the end-of-batch test
MailAdvance(w) ==
    IF gi[w] < Items(w)
    THEN /\ gi' = [gi EXCEPT ![w] = gi[w] + 1]
         /\ ci' = [ci EXCEPT ![w] = 1]
         /\ mclaimed' = [mclaimed EXCEPT ![w] = << >>]
         /\ mpc' = [mpc EXCEPT ![w] = "claim"]
         /\ mbatch' = mbatch
    ELSE /\ gi' = [gi EXCEPT ![w] = 0]
         /\ ci' = [ci EXCEPT ![w] = 0]
         /\ mclaimed' = [mclaimed EXCEPT ![w] = << >>]
         /\ mbatch' = [mbatch EXCEPT ![w] = << >>]
         /\ mpc' = [mpc EXCEPT ![w] =
                      IF Len(mbatch[w]) < MAIL_BATCH_SIZE THEN "done"
                      ELSE "poll"]

\* an exception that leaves the for loop and ends the run
AfterItemAborting(w, o) ==
    IF o = "render_raises"
    THEN /\ gi' = [gi EXCEPT ![w] = 0]
         /\ ci' = [ci EXCEPT ![w] = 0]
         /\ mclaimed' = [mclaimed EXCEPT ![w] = << >>]
         /\ mbatch' = [mbatch EXCEPT ![w] = << >>]
         /\ mpc' = [mpc EXCEPT ![w] = "done"]
    ELSE MailAdvance(w)

\* the end of the try statement of the for-body: an exception is caught
\* by `except Exception`, logged, and the loop goes on
AfterItem(w, o) == MailAdvance(w)

MailPoll(w, fetched) ==
    /\ mbatch' = [mbatch EXCEPT ![w] = fetched]
    /\ gi' = [gi EXCEPT ![w] = IF fetched = << >> THEN 0 ELSE 1]
    /\ ci' = [ci EXCEPT ![w] = IF fetched = << >> THEN 0 ELSE 1]
    /\ mclaimed' = [mclaimed EXCEPT ![w] = << >>]
    /\ mpc' = [mpc EXCEPT ![w] = IF fetched = << >> THEN "done" ELSE "claim"]
    /\ UNCHANGED <<pending_emails, mkind, owner, sendCalls, digests, skipped>>
    /\ UNCHANGED outsideMail

InstantPoll(w) ==
    /\ mpc[w] = "poll" /\ mkind[w] = "instant"
    /\ MailPoll(w, get_pending_immediate_emails(MAIL_BATCH_SIZE))

HourlyPoll(w) ==
    /\ mpc[w] = "poll" /\ mkind[w] = "hourly"
    /\ MailPoll(w, get_pending_aggregated_emails(MAIL_BATCH_SIZE))

\* main_instant: claim this email, or skip it
InstantClaim(w) ==
    /\ mpc[w] = "claim" /\ mkind[w] = "instant"
    /\ LET id == mbatch[w][gi[w]]
           r == mark_email_processing(id)
       IN  /\ pending_emails' = r.tbl
           /\ owner' = [owner EXCEPT ![id] =
                          IF r.ok THEN Append(@, w) ELSE @]
           /\ IF r.ok
              THEN /\ mclaimed' = [mclaimed EXCEPT ![w] = <<id>>]
                   /\ mpc' = [mpc EXCEPT ![w] = "send"]
                   /\ UNCHANGED <<mbatch, gi, ci>>
              ELSE MailAdvance(w)
    /\ UNCHANGED <<mkind, sendCalls, digests, skipped>>
    /\ UNCHANGED outsideMail

\* main_instant: profile, render, send, mark sent / failed
InstantSend(w, o) ==
    /\ mpc[w] = "send" /\ mkind[w] = "instant"
    /\ LET id == mbatch[w][gi[w]]
       IN  /\ pending_emails' =
                 IF o = "sent" THEN mark_email_sent(pending_emails, id)
                 ELSE mark_email_failed(pending_emails, id)
           /\ sendCalls' = [sendCalls EXCEPT ![id] =
                              @ + (IF CallsSend(o) THEN 1 ELSE 0)]
    /\ AfterItem(w, o)
    /\ UNCHANGED <<mkind, owner, digests, skipped>>
    /\ UNCHANGED outsideMail

\* main_hourly: one mark_email_processing of the claim loop of a user group
HourlyClaim(w) ==
    /\ mpc[w] = "claim" /\ mkind[w] = "hourly"
    /\ LET u == GroupUsers(mbatch[w])[gi[w]]
           rows == GroupRows(mbatch[w], u)
           id == rows[ci[w]]
           r == mark_email_processing(id)
           got == IF r.ok THEN Append(mclaimed[w], id) ELSE mclaimed[w]
       IN  /\ pending_emails' = r.tbl
           /\ owner' = [owner EXCEPT ![id] =
                          IF r.ok THEN Append(@, w) ELSE @]
           /\ IF ci[w] < Len(rows)
              THEN /\ ci' = [ci EXCEPT ![w] = ci[w] + 1]
                   /\ mclaimed' = [mclaimed EXCEPT ![w] = got]
                   /\ UNCHANGED <<mbatch, gi, mpc>>
              ELSE IF got # << >>
              THEN /\ mclaimed' = [mclaimed EXCEPT ![w] = got]
                   /\ mpc' = [mpc EXCEPT ![w] = "send"]
                   /\ UNCHANGED <<mbatch, gi, ci>>
              ELSE MailAdvance(w)
    /\ UNCHANGED <<mkind, sendCalls, digests, skipped>>
    /\ UNCHANGED outsideMail

\* main_hourly: profile, build one digest, send it once, finalise every
\* claimed row of the group the same way
HourlySend(w, o) ==
    /\ mpc[w] = "send" /\ mkind[w] = "hourly"
    /\ LET u == GroupUsers(mbatch[w])[gi[w]]
       IN  /\ pending_emails' =
                 MarkAll(pending_emails, mclaimed[w], FinalStatus(o))
           /\ sendCalls' =
                 [id \in MailIds |->
                    IF id \in SeqToSet(mclaimed[w]) /\ CallsSend(o)
                    THEN sendCalls[id] + 1 ELSE sendCalls[id]]
           /\ digests' = [digests EXCEPT ![w][u] =
                            @ + (IF CallsSend(o) THEN 1 ELSE 0)]
           /\ skipped' = [skipped EXCEPT ![w] =
                            IF CallsSend(o) THEN @ ELSE @ \cup {u}]
    /\ AfterItem(w, o)
    /\ UNCHANGED <<mkind, owner>>
    /\ UNCHANGED outsideMail

MailInit ==
    /\ pending_emails = << >>
    /\ mkind = [w \in MailRuns |-> "instant"]
    /\ mpc = [w \in MailRuns |-> "idle"]
    /\ mbatch = [w \in MailRuns |-> << >>]
    /\ gi = [w \in MailRuns |-> 0]
    /\ ci = [w \in MailRuns |-> 0]
    /\ mclaimed = [w \in MailRuns |-> << >>]
    /\ owner = [id \in MailIds |-> << >>]
    /\ sendCalls = [id \in MailIds |-> 0]
    /\ digests = [w \in MailRuns |-> [u \in Recipients |-> 0]]
    /\ skipped = [w \in MailRuns |-> {}]

MailNext ==
    \/ \E u \in Recipients, d \in {"immediate", "aggregated"} : Enqueue(u, d)
    \/ \E w \in MailRuns, k \in {"instant", "hourly"} : MailStart(w, k)
    \/ \E w \in MailRuns : InstantPoll(w)
    \/ \E w \in MailRuns : HourlyPoll(w)
    \/ \E w \in MailRuns : InstantClaim(w)
    \/ \E w \in MailRuns : HourlyClaim(w)
    \/ \E w \in MailRuns, o \in Outcomes : InstantSend(w, o)
    \/ \E w \in MailRuns, o \in Outcomes : HourlySend(w, o)

-----------------------------------------------------------------------------
(***************************************************************************)
(* notifications and user_notification_preferences: the store calls of    *)
(* the handlers                                                            *)
(***************************************************************************)

Actor == "amy"
Executors == {"x1", "x2"}
AttemptNames == {"first", "redrive"}
Threads == {"t1", "t2"}
Project == "p1"

\* the resolver that tries the scopes in the opposite order
check_user_preference_reversed(user_id, scope_type, scope_id, event_type, channel, project_id) ==
    LET relevant == SelectSeq(prefs, LAMBDA p :
                        /\ p.user_id = user_id
                        /\ (p.event_type = event_type \/ p.event_type = "*")
                        /\ (p.channel = channel \/ p.channel = "*"))
        thread_pref == SelectSeq(relevant, LAMBDA p :
                        p.scope_type = "thread" /\ p.scope_id = scope_id)
        project_pref == SelectSeq(relevant, LAMBDA p :
                        p.scope_type = "project" /\ p.scope_id = project_id)
        global_pref == SelectSeq(relevant, LAMBDA p : p.scope_type = "global")
    IN  IF global_pref # << >> THEN global_pref[1].status = "muted"
        ELSE IF project_pref # << >> THEN project_pref[1].status = "muted"
        ELSE IF thread_pref # << >> THEN thread_pref[1].status = "muted"
        ELSE FALSE

\* Database.check_user_preference: thread > project > global, the first
\* matching row of each level decides; no row: not muted
check_user_preference(user_id, scope_type, scope_id, event_type, channel, project_id) ==
    LET mine == SelectSeq(prefs, LAMBDA p : p.user_id = user_id)
        relevant == SelectSeq(mine, LAMBDA p :
                        /\ (p.event_type = event_type \/ p.event_type = "*")
                        /\ (p.channel = channel \/ p.channel = "*"))
        thread_pref == SelectSeq(relevant, LAMBDA p :
                        p.scope_type = "thread" /\ p.scope_id = scope_id)
        project_pref == SelectSeq(relevant, LAMBDA p :
                        p.scope_type = "project" /\ p.scope_id = project_id)
        global_pref == SelectSeq(relevant, LAMBDA p : p.scope_type = "global")
    IN  IF mine = << >> THEN FALSE
        ELSE IF thread_pref # << >> THEN thread_pref[1].status = "muted"
        ELSE IF project_pref # << >> THEN project_pref[1].status = "muted"
        ELSE IF global_pref # << >> THEN global_pref[1].status = "muted"
        ELSE FALSE

\* the preference tables the model starts from
Pref(u, st, sid, et, ch, status) ==
    [user_id |-> u, scope_type |-> st, scope_id |-> sid, event_type |-> et,
     channel |-> ch, status |-> status]

PrefChoices ==
    { << >>,
      <<Pref("bob", "project", Project, "*", "in_app", "muted"),
        Pref("bob", "thread", "t1", "chat_message", "*", "unmuted")>> }

\* Database.fetch_existing_recipients: users with a row for this event
fetch_existing_recipients(tbl, e) ==
    {tbl[i].user_id : i \in {j \in 1..Len(tbl) : tbl[j].event_id = e}}

\* Database.create_notification: a plain INSERT; ntype, thread_id and count
\* are the payload's "type", "thread_id" and "count"
create_notification(tbl, u, e, ntype, thread_id, count, link_url) ==
    Append(tbl, [user_id |-> u, event_id |-> e, ntype |-> ntype,
                 thread_id |-> thread_id, count |-> count, read |-> FALSE,
                 link_url |-> link_url])

\* Database.increment_notification_count -> rpc increment_notification_count
increment_notification_count(tbl, id) ==
    [tbl EXCEPT ![id].count = @ + 1]

\* ids of the unread rows of a user
Unread(tbl, u) ==
    {i \in 1..Len(tbl) : tbl[i].user_id = u /\ ~tbl[i].read}

\* a lookup that filters by thread only
FindThreadActivityAnyType(tbl, u, thread_id) ==
    LET window == {i \in Unread(tbl, u) :
                     Cardinality({j \in Unread(tbl, u) : j > i}) < LOOKUP_LIMIT}
        matching == {i \in window : tbl[i].thread_id = thread_id}
    IN  IF matching = {} THEN 0
        ELSE CHOOSE i \in matching : \A j \in matching : j <= i

\* handle_chat_message's lookup: the newest LOOKUP_LIMIT unread rows of the
\* user, filtered by thread and type; the first match (newest) or 0
FindThreadActivity(tbl, u, thread_id) ==
    LET window == {i \in Unread(tbl, u) :
                     Cardinality({j \in Unread(tbl, u) : j > i}) < LOOKUP_LIMIT}
        matching == {i \in window :
                        /\ tbl[i].thread_id = thread_id
                        /\ tbl[i].ntype = "thread_activity"}
    IN  IF matching = {} THEN 0
        ELSE CHOOSE i \in matching : \A j \in matching : j <= i

-----------------------------------------------------------------------------
(***************************************************************************)
(* The handlers (handlers.py).  A handler is the sequence of store calls   *)
(* it makes for an event; an executor makes them one at a time.            *)
(***************************************************************************)

\* a domain event as the handlers read it: users is what the handler's
\* recipient query returns (project members with access, thread or meeting
\* participants, org owners, or the one user named in the payload)
Event(type, users, thread_id, mentioned, upgrade) ==
    [type |-> type, actor_id |-> Actor, users |-> users,
     thread_id |-> thread_id, mentioned_user_ids |-> mentioned,
     upgrade |-> upgrade, resource_id |-> "", can_view |-> {}]

\* a document_uploaded event for resource_id ("" when the event names no
\* resource); can_view is the set of users the can_view RPC answers true for
Upload(users, resource_id, can_view) ==
    [Event("document_uploaded", users, "", {}, FALSE)
        EXCEPT !.resource_id = resource_id, !.can_view = can_view]

\* chat_message_sent events: t1 has two participants, t2 three
ChatEvents ==
    {Event("chat_message_sent",
           IF t = "t1" THEN <<Actor, "bob">> ELSE <<Actor, "bob", "cy">>,
           t, m, FALSE) : t \in Threads, m \in {{}, {"bob"}}}

\* one event of every other type in dispatch_event's handlers_map, except
\* resume_incomplete_nudge (its tier lookup is not part of this model yet)
OtherEvents ==
    {Event("document_uploaded", <<Actor, "bob", "cy">>, "", {}, FALSE),
     Event("thread_unread_stale", <<"bob">>, "t1", {}, FALSE),
     Event("meeting_invited", <<"bob">>, "", {}, FALSE),
     Event("meeting_updated", <<"bob", "cy">>, "", {}, FALSE),
     Event("meeting_reminder", <<"bob">>, "", {}, FALSE),
     Event("invite_accepted", <<Actor, "bob", "cy">>, "", {}, FALSE),
     Event("project_access_granted", <<"bob">>, "", {}, FALSE),
     Event("project_access_revoked", <<"bob">>, "", {}, FALSE),
     Event("document_permission_granted", <<"bob">>, "", {}, FALSE)}
    \cup {Event(t, <<"bob">>, "", {}, up) :
            t \in {"project_access_changed", "document_permission_changed"},
            up \in BOOLEAN}

Catalog == ChatEvents \cup OtherEvents

\* one store call of a handler
Op(op, user, arg) == [op |-> op, user |-> user, arg |-> arg]

RECURSIVE Concat(_)
Concat(ss) == IF ss = << >> THEN << >> ELSE Head(ss) \o Concat(Tail(ss))

\* `is_muted` of the handlers that check the project scope
MutedInProject(u, event_type) ==
    check_user_preference(u, "project", Project, event_type, "in_app", Project)

\* `is_muted` of the handlers that check the global scope
MutedGlobally(u, event_type) ==
    check_user_preference(u, "global", "", event_type, "in_app", "")

\* helpers.collect_candidate_user_ids: the users with a grant on the
\* project and the owners of its org
collect_candidate_user_ids(ev) == ev.users

filter_by_resource_access_all(candidate_ids, ev) == candidate_ids

\* helpers.filter_by_resource_access
filter_by_resource_access(candidate_ids, ev) ==
    IF ev.resource_id = "" THEN candidate_ids
    ELSE SelectSeq(candidate_ids, LAMBDA u : u \in ev.can_view)

handle_document_uploaded(ev) ==
    LET candidate_ids == collect_candidate_user_ids(ev)
        filtered_user_ids == filter_by_resource_access(candidate_ids, ev)
        final_recipient_ids == SelectSeq(filtered_user_ids,
                                         LAMBDA u : u # ev.actor_id)
        notified_ids == SelectSeq(final_recipient_ids, LAMBDA u :
                            ~MutedInProject(u, "document_uploaded"))
    IN  IF notified_ids = << >> THEN << >>
        ELSE <<Op("dedupe", "", "")>>
             \o [i \in 1..Len(notified_ids) |-> Op("notify", notified_ids[i], "")]
             \o [i \in 1..Len(notified_ids) |->
                    Op("email", notified_ids[i], "aggregated")]

handle_chat_message(ev) ==
    LET participants == SelectSeq(ev.users, LAMBDA u :
            /\ u # ev.actor_id
            /\ ~check_user_preference(u, "thread", ev.thread_id,
                                      "chat_message", "in_app", Project))
    IN  Concat([i \in 1..Len(participants) |->
            IF participants[i] \in ev.mentioned_user_ids
            THEN <<Op("notify", participants[i], "mention")>>
            ELSE <<Op("lookup", participants[i], ""),
                   Op("aggregate", participants[i], 0)>>])

handle_thread_unread_stale(ev) ==
    <<Op("dedupe", "", ""), Op("email", ev.users[1], "aggregated")>>

\* handle_meeting_invited, handle_meeting_reminder,
\* handle_project_access_revoked, handle_document_permission_granted:
\* dedupe, mute check, one notification
NotifyOne(ev, muted, ntype) ==
    <<Op("dedupe", "", "")>>
    \o (IF muted THEN << >> ELSE <<Op("notify", ev.users[1], ntype)>>)

handle_meeting_invited(ev) ==
    NotifyOne(ev, MutedInProject(ev.users[1], "meeting_invited"),
              "meeting_invitation")

handle_meeting_reminder(ev) ==
    NotifyOne(ev, MutedInProject(ev.users[1], "meeting_reminder"),
              "meeting_reminder")

handle_project_access_revoked(ev) ==
    NotifyOne(ev, MutedGlobally(ev.users[1], "project_access_revoked"),
              "project_access_revoked")

handle_document_permission_granted(ev) ==
    NotifyOne(ev, MutedInProject(ev.users[1], "document_permission_granted"),
              "document_permission_granted")

handle_document_permission_changed(ev) ==
    IF ~ev.upgrade THEN << >>
    ELSE NotifyOne(ev, MutedInProject(ev.users[1],
                                      "document_permission_changed"),
                   "document_permission_changed")

handle_meeting_updated(ev) ==
    LET participants == SelectSeq(ev.users, LAMBDA u :
                            ~MutedInProject(u, "meeting_updated"))
    IN  <<Op("dedupe", "", "")>>
        \o [i \in 1..Len(participants) |->
                Op("notify", participants[i], "meeting_update")]

handle_invite_accepted(ev) ==
    LET recipient_ids == SelectSeq(ev.users, LAMBDA u : u # ev.actor_id)
    IN  IF recipient_ids = << >> THEN << >>
        ELSE <<Op("dedupe", "", "")>>
             \o Concat([i \in 1..Len(recipient_ids) |->
                    IF MutedGlobally(recipient_ids[i], "invite_accepted")
                    THEN << >>
                    ELSE <<Op("notify", recipient_ids[i], "invite_accepted"),
                           Op("email", recipient_ids[i], "immediate")>>])

handle_project_access_granted(ev) ==
    <<Op("dedupe", "", "")>>
    \o (IF MutedInProject(ev.users[1], "project_access_granted") THEN << >>
        ELSE <<Op("notify", ev.users[1], "project_access_granted"),
               Op("email", ev.users[1], "immediate")>>)

handle_project_access_changed(ev) ==
    <<Op("dedupe", "", "")>>
    \o (IF MutedInProject(ev.users[1], "project_access_changed") THEN << >>
        ELSE <<Op("notify", ev.users[1], "project_access_changed")>>
             \o (IF ev.upgrade
                 THEN <<Op("email", ev.users[1], "immediate")>> ELSE << >>))

link_url_project(ev) == "/project/workspace/" \o Project

\* link_url of the notification each handler builds
link_url(ev) ==
    LET base_path == "/project/workspace/" \o Project
    IN  CASE ev.type = "document_uploaded" ->
                IF ev.resource_id # ""
                THEN base_path \o "?resourceId=" \o ev.resource_id
                ELSE base_path
          [] ev.type = "chat_message_sent" ->
                base_path \o "?tab=chat&thread=" \o ev.thread_id
          [] ev.type \in {"meeting_invited", "meeting_updated",
                          "meeting_reminder"} -> base_path \o "?tab=meetings"
          [] ev.type = "invite_accepted" -> "/team"
          [] ev.type \in {"project_access_granted",
                          "project_access_changed"} -> base_path
          [] ev.type = "project_access_revoked" -> "/dashboard"
          [] OTHER -> base_path \o "?resourceId=" \o ev.resource_id

\* main.dispatch_event: the handler registered for the event type
dispatch_event(ev) ==
    IF ev.type \notin handlers_map THEN << >>
    ELSE
    CASE ev.type = "document_uploaded" -> handle_document_uploaded(ev)
      [] ev.type = "chat_message_sent" -> handle_chat_message(ev)
      [] ev.type = "thread_unread_stale" -> handle_thread_unread_stale(ev)
      [] ev.type = "meeting_invited" -> handle_meeting_invited(ev)
      [] ev.type = "meeting_updated" -> handle_meeting_updated(ev)
      [] ev.type = "meeting_reminder" -> handle_meeting_reminder(ev)
      [] ev.type = "invite_accepted" -> handle_invite_accepted(ev)
      [] ev.type = "project_access_granted" -> handle_project_access_granted(ev)
      [] ev.type = "project_access_changed" -> handle_project_access_changed(ev)
      [] ev.type = "project_access_revoked" -> handle_project_access_revoked(ev)
      [] ev.type = "document_permission_granted" ->
            handle_document_permission_granted(ev)
      [] ev.type = "document_permission_changed" ->
            handle_document_permission_changed(ev)
      [] OTHER -> << >>

-----------------------------------------------------------------------------
(***************************************************************************)
(* Executions of the handlers                                              *)
(***************************************************************************)

Running(x) == hev[x] # 0
NextOp(x) == Head(hplan[x])
Idle == \A x \in Executors : ~Running(x)

\* a user edits their notification preferences (before events are handled)
SetPrefs(p) ==
    /\ hevents = << >>
    /\ prefs # p
    /\ prefs' = p
    /\ UNCHANGED <<notifications, hevents, hev, hplan, hrerun, attempts,
                   finished, overlapped, requeued, pending_emails>>
    /\ UNCHANGED outsideHandlers

AddEvent(ev) ==
    /\ hevents' = Append(hevents, ev)
    /\ attempts' = Append(attempts, 0)
    /\ finished' = Append(finished, 0)
    /\ UNCHANGED <<notifications, prefs, hev, hplan, hrerun, overlapped,
                   requeued, pending_emails>>
    /\ UNCHANGED outsideHandlers

\* an event of any type reaches the handlers
Emit(ev) ==
    /\ Len(hevents) < NHEvents
    /\ AddEvent(ev)

\* a chat message is posted
EmitChat(ev) ==
    /\ Len(hevents) < NChat
    /\ AddEvent(ev)

StartHandler(x, e) ==
    /\ ~Running(x)
    /\ hev' = [hev EXCEPT ![x] = e]
    /\ hplan' = [hplan EXCEPT ![x] = dispatch_event(hevents[e])]
    /\ hrerun' = [hrerun EXCEPT ![x] =
                    finished[e] >= 1 /\ \A y \in Executors : hev[y] # e]
    /\ attempts' = [attempts EXCEPT ![e] = @ + 1]
    /\ overlapped' = IF \E y \in Executors : hev[y] = e
                     THEN overlapped \cup {e} ELSE overlapped
    /\ UNCHANGED <<notifications, prefs, hevents, finished, requeued,
                   pending_emails>>
    /\ UNCHANGED outsideHandlers

\* dispatch_event(event) is called: by the loop for a claimed event, or
\* again after an operator re-drive
Begin(x, e) ==
    /\ e \in 1..Len(hevents)
    /\ attempts[e] < Cardinality(AttemptNames)
    /\ StartHandler(x, e)

\* one run of the loop handles the events once each, oldest first
BeginOnce(x, e) ==
    /\ e \in 1..Len(hevents)
    /\ Idle
    /\ attempts[e] = 0
    /\ \A d \in 1..(e - 1) : finished[d] >= 1
    /\ StartHandler(x, e)

\* two overlapping runs of the loop: each event goes to the one worker
\* that claimed it, while the other worker may be inside another event
BeginClaimed(x, e) ==
    /\ e \in 1..Len(hevents)
    /\ attempts[e] = 0
    /\ StartHandler(x, e)

\* already_notified = db.fetch_existing_recipients(event.id): the calls for
\* users already notified are dropped
Dedupe(x) ==
    /\ Running(x) /\ hplan[x] # << >> /\ NextOp(x).op = "dedupe"
    /\ LET already_notified ==
               fetch_existing_recipients(notifications, hev[x])
       IN  hplan' = [hplan EXCEPT ![x] =
                SelectSeq(Tail(@), LAMBDA q : q.user \notin already_notified)]
    /\ UNCHANGED <<notifications, prefs, hevents, hev, hrerun, attempts,
                   finished, overlapped, requeued, pending_emails>>
    /\ UNCHANGED outsideHandlers

\* db.create_notification(...)
Notify(x) ==
    /\ Running(x) /\ hplan[x] # << >> /\ NextOp(x).op = "notify"
    /\ LET ev == hevents[hev[x]]
       IN  notifications' = create_notification(notifications, NextOp(x).user,
               hev[x], NextOp(x).arg, ev.thread_id,
               IF ev.type = "chat_message_sent" THEN 1 ELSE 0, link_url(ev))
    /\ hplan' = [hplan EXCEPT ![x] = Tail(@)]
    /\ UNCHANGED <<prefs, hevents, hev, hrerun, attempts, finished,
                   overlapped, requeued, pending_emails>>
    /\ UNCHANGED outsideHandlers

\* db.queue_email(...)
QueueEmail(x) ==
    /\ Running(x) /\ hplan[x] # << >> /\ NextOp(x).op = "email"
    /\ LET e == hev[x]
           u == NextOp(x).user
       IN  /\ pending_emails' = queue_email(pending_emails, u, e,
                                            hevents[e].type, NextOp(x).arg)
           /\ requeued' = IF RowsOf(pending_emails, e, u) # {}
                          THEN requeued \cup {<<e, u>>} ELSE requeued
    /\ hplan' = [hplan EXCEPT ![x] = Tail(@)]
    /\ UNCHANGED <<notifications, prefs, hevents, hev, hrerun, attempts,
                   finished, overlapped>>
    /\ UNCHANGED outsideHandlers

\* handle_chat_message: the select of the user's unread notifications
Lookup(x) ==
    /\ Running(x) /\ hplan[x] # << >> /\ NextOp(x).op = "lookup"
    /\ LET u == NextOp(x).user
           matching_notification ==
               FindThreadActivity(notifications, u,
                                  hevents[hev[x]].thread_id)
       IN  hplan' = [hplan EXCEPT ![x] =
                <<Op("aggregate", u, matching_notification)>> \o Tail(Tail(@))]
    /\ UNCHANGED <<notifications, prefs, hevents, hev, hrerun, attempts,
                   finished, overlapped, requeued, pending_emails>>
    /\ UNCHANGED outsideHandlers

\* handle_chat_message: increment the row found, else create one
Aggregate(x) ==
    /\ Running(x) /\ hplan[x] # << >> /\ NextOp(x).op = "aggregate"
    /\ notifications' =
         IF NextOp(x).arg # 0
         THEN increment_notification_count(notifications, NextOp(x).arg)
         ELSE create_notification(notifications, NextOp(x).user, hev[x],
                  "thread_activity", hevents[hev[x]].thread_id, 1,
                  link_url(hevents[hev[x]]))
    /\ hplan' = [hplan EXCEPT ![x] = Tail(@)]
    /\ UNCHANGED <<prefs, hevents, hev, hrerun, attempts, finished,
                   overlapped, requeued, pending_emails>>
    /\ UNCHANGED outsideHandlers

\* the handler returns its (notifications, emails) counts
Return(x) ==
    /\ Running(x) /\ hplan[x] = << >>
    /\ finished' = [finished EXCEPT ![hev[x]] = @ + 1]
    /\ hev' = [hev EXCEPT ![x] = 0]
    /\ hrerun' = [hrerun EXCEPT ![x] = FALSE]
    /\ UNCHANGED <<notifications, prefs, hevents, hplan, attempts,
                   overlapped, requeued, pending_emails>>
    /\ UNCHANGED outsideHandlers

\* the process is killed inside the handler
Abort(x) ==
    /\ Running(x) /\ hplan[x] # << >>
    /\ hev' = [hev EXCEPT ![x] = 0]
    /\ hplan' = [hplan EXCEPT ![x] = << >>]
    /\ hrerun' = [hrerun EXCEPT ![x] = FALSE]
    /\ UNCHANGED <<notifications, prefs, hevents, attempts, finished,
                   overlapped, requeued, pending_emails>>
    /\ UNCHANGED outsideHandlers

\* the recipient reads a notification (read_at is set)
MarkRead(i) ==
    /\ i \in 1..Len(notifications)
    /\ ~notifications[i].read
    /\ notifications' = [notifications EXCEPT ![i].read = TRUE]
    /\ UNCHANGED <<prefs, hevents, hev, hplan, hrerun, attempts, finished,
                   overlapped, requeued, pending_emails>>
    /\ UNCHANGED outsideHandlers

HandlersInit ==
    /\ notifications = << >>
    /\ prefs = << >>
    /\ hevents = << >>
    /\ hev = [x \in Executors |-> 0]
    /\ hplan = [x \in Executors |-> << >>]
    /\ hrerun = [x \in Executors |-> FALSE]
    /\ attempts = << >>
    /\ finished = << >>
    /\ overlapped = {}
    /\ requeued = {}

HandlersNext ==
    \/ \E p \in PrefChoices : SetPrefs(p)
    \/ \E ev \in Catalog : Emit(ev)
    \/ \E x \in Executors, e \in 1..NHEvents : Begin(x, e)
    \/ \E x \in Executors : Dedupe(x)
    \/ \E x \in Executors : Notify(x)
    \/ \E x \in Executors : QueueEmail(x)
    \/ \E x \in Executors : Lookup(x)
    \/ \E x \in Executors : Aggregate(x)
    \/ \E x \in Executors : Return(x)
    \/ \E x \in Executors : Abort(x)

ChatNext ==
    \/ \E p \in PrefChoices : SetPrefs(p)
    \/ \E ev \in ChatEvents : EmitChat(ev)
    \/ \E x \in Executors, e \in 1..NChat : BeginOnce(x, e)
    \/ \E x \in Executors : Notify(x)
    \/ \E x \in Executors : Lookup(x)
    \/ \E x \in Executors : Aggregate(x)
    \/ \E x \in Executors : Return(x)
    \/ \E i \in 1..(2 * NChat) : MarkRead(i)

\* a chat message is posted while two runs of the loop overlap
EmitRaceChat(ev) ==
    /\ Len(hevents) < NRaceChat
    /\ AddEvent(ev)

\* chat messages handled by two workers at a time
ChatRaceNext ==
    \/ \E p \in PrefChoices : SetPrefs(p)
    \/ \E ev \in ChatEvents : EmitRaceChat(ev)
    \/ \E x \in Executors, e \in 1..NRaceChat : BeginClaimed(x, e)
    \/ \E x \in Executors : Notify(x)
    \/ \E x \in Executors : Lookup(x)
    \/ \E x \in Executors : Aggregate(x)
    \/ \E x \in Executors : Return(x)
    \/ \E i \in 1..(2 * NRaceChat) : MarkRead(i)

-----------------------------------------------------------------------------
(***************************************************************************)
(* Preference resolution on its own: any preference table, any mute check  *)
(***************************************************************************)

\* the rows a preference table is built from
PrefRows ==
    {Pref("bob", sc[1], sc[2], et, ch, st) :
        sc \in {<<"thread", "t1">>, <<"thread", "t2">>,
                <<"project", Project>>, <<"global", "">>},
        et \in {"chat_message", "*", "document_uploaded"},
        ch \in {"in_app", "*"},
        st \in {"muted", "unmuted"}}
    \cup {Pref("cy", "thread", "t1", "*", "*", "muted"),
          Pref("bob", "thread", "t1", "chat_message", "email", "muted")}

\* the mute checks the handlers make: handle_chat_message (thread scope)
\* and handle_document_uploaded (project scope), for user bob
Query(scope_type, scope_id, event_type) ==
    [user_id |-> "bob", scope_type |-> scope_type, scope_id |-> scope_id,
     event_type |-> event_type, channel |-> "in_app", project_id |-> Project]

Queries ==
    {Query("thread", "t1", "chat_message"),
     Query("project", Project, "document_uploaded")}

\* Database.check_user_preference with its try/except: an error raised by
\* the lookup is logged and the answer is False (not muted)
check_user_preference_guarded(raised, q) ==
    IF raised THEN FALSE
    ELSE check_user_preference(q.user_id, q.scope_type, q.scope_id,
                               q.event_type, q.channel, q.project_id)

\* a row is written to user_notification_preferences (an answer given
\* before is no longer the answer for this table)
AddPref(row) ==
    /\ Len(prefs) < NPrefs
    /\ prefs' = Append(prefs, row)
    /\ lastCheck' = [lastCheck EXCEPT !.asked = FALSE]
    /\ UNCHANGED <<handlerCtl, pending_emails>>
    /\ UNCHANGED <<laterVars, loopVars, mailCtl, nudgeVars, permVars, resumeVars>>

\* a handler asks whether the user muted the event
CheckPref(q, raised) ==
    /\ lastCheck' = [asked |-> TRUE, q |-> q, raised |-> raised,
                   muted |-> check_user_preference_guarded(raised, q)]
    /\ UNCHANGED <<prefs, handlerCtl, pending_emails>>
    /\ UNCHANGED <<laterVars, loopVars, mailCtl, nudgeVars, permVars, resumeVars>>

PrefsInit ==
    lastCheck = [asked |-> FALSE, q |-> Query("global", "", "*"),
               raised |-> FALSE, muted |-> FALSE]

PrefsNext ==
    \/ \E row \in PrefRows : AddPref(row)
    \/ \E q \in Queries, raised \in BOOLEAN : CheckPref(q, raised)

-----------------------------------------------------------------------------
(***************************************************************************)
(* Unread-thread nudge scheduler (unread-thread-nudges/main.py) over one   *)
(* thread with sender amy and participants bob and cy                      *)
(***************************************************************************)

NudgeRuns == {"n1", "n2"}
NudgeThread == "t1"
Participants == <<Actor, "bob", "cy">>

\* check_user_preference of the scheduler: the same resolution as the
\* fan-out's, without a try/except around it
nudge_check_user_preference(user_id, scope_type, scope_id, event_type, channel, project_id) ==
    check_user_preference(user_id, scope_type, scope_id, event_type,
                          channel, project_id)

StaleEntry(u) ==
    [thread_id |-> NudgeThread, user_id |-> u, latest_message_at |-> latestMsg]

\* steps 1 and 2 of process_unread_thread_nudges: stale_unread_list
stale_unread_list ==
    IF latestMsg = 0 \/ msgAge # "stale" THEN << >>
    ELSE LET unread == SelectSeq(Participants, LAMBDA u :
                            u # Actor /\ ~(lastRead[u] >= latestMsg))
         IN  [i \in 1..Len(unread) |-> StaleEntry(unread[i])]

\* amy posts a message in the thread
PostMessage ==
    /\ latestMsg < NStamp
    /\ latestMsg' = latestMsg + 1
    /\ msgAge' = "fresh"
    /\ UNCHANGED <<lastRead, staleLog, nudgeEvents, npc, nlist, nscan, nraised>>
    /\ UNCHANGED <<laterVars, loopVars, mailVars, handlerVars, prefVars, permVars, resumeVars>>

\* the staleness threshold passes
GrowStale ==
    /\ latestMsg > 0 /\ msgAge = "fresh"
    /\ msgAge' = "stale"
    /\ UNCHANGED <<latestMsg, lastRead, staleLog, nudgeEvents, npc, nlist,
                   nscan, nraised>>
    /\ UNCHANGED <<laterVars, loopVars, mailVars, handlerVars, prefVars, permVars, resumeVars>>

\* a participant opens the thread
ReadThread(u) ==
    /\ lastRead[u] < latestMsg
    /\ lastRead' = [lastRead EXCEPT ![u] = latestMsg]
    /\ UNCHANGED <<latestMsg, msgAge, staleLog, nudgeEvents, npc, nlist,
                   nscan, nraised>>
    /\ UNCHANGED <<laterVars, loopVars, mailVars, handlerVars, prefVars, permVars, resumeVars>>

\* the user mutes or unmutes (between runs)
NudgeSetPrefs(p) ==
    /\ \A n \in NudgeRuns : npc[n] \in {"idle", "done", "failed"}
    /\ prefs # p
    /\ prefs' = p
    /\ UNCHANGED <<handlerCtl, pending_emails>>
    /\ UNCHANGED <<laterVars, loopVars, mailCtl, prefVars, nudgeVars, permVars, resumeVars>>

\* the entry is done with: the next one, or the end of the run
NudgeAdvance(n) ==
    /\ nlist' = [nlist EXCEPT ![n] = Tail(@)]
    /\ npc' = [npc EXCEPT ![n] = IF Len(nlist[n]) > 1 THEN "dedupe" ELSE "done"]

\* main() starts; steps 1 and 2 build the list
NudgeScan(n) ==
    /\ npc[n] = "idle"
    /\ nlist' = [nlist EXCEPT ![n] = stale_unread_list]
    /\ nscan' = [nscan EXCEPT ![n] = stale_unread_list]
    /\ npc' = [npc EXCEPT ![n] =
                 IF stale_unread_list = << >> THEN "done" ELSE "dedupe"]
    /\ UNCHANGED <<latestMsg, msgAge, lastRead, staleLog, nudgeEvents,
                   nraised>>
    /\ UNCHANGED <<laterVars, loopVars, mailVars, handlerVars, prefVars, permVars, resumeVars>>

\* the dedupe lookup keyed by thread and user alone
existing_log_any_message(entry) ==
    \E i \in 1..Len(staleLog) :
        /\ staleLog[i].thread_id = entry.thread_id
        /\ staleLog[i].user_id = entry.user_id

\* the dedupe lookup: .eq thread_id, .eq user_id, .eq latest_message_at
existing_log(entry) ==
    \E i \in 1..Len(staleLog) :
        /\ staleLog[i].thread_id = entry.thread_id
        /\ staleLog[i].user_id = entry.user_id
        /\ staleLog[i].latest_message_at = entry.latest_message_at

\* step 3: the dedupe log lookup
NudgeDedupe(n) ==
    /\ npc[n] = "dedupe"
    /\ IF existing_log(Head(nlist[n]))
       THEN NudgeAdvance(n)
       ELSE /\ npc' = [npc EXCEPT ![n] = "pref"]
            /\ UNCHANGED nlist
    /\ UNCHANGED <<latestMsg, msgAge, lastRead, staleLog, nudgeEvents,
                   nscan, nraised>>
    /\ UNCHANGED <<laterVars, loopVars, mailVars, handlerVars, prefVars, permVars, resumeVars>>

\* step 3: the mute check; an error raised by the lookup leaves
\* process_unread_thread_nudges and main() returns 1
NudgePref(n, raised) ==
    /\ npc[n] = "pref"
    /\ LET entry == Head(nlist[n])
           is_muted == nudge_check_user_preference(entry.user_id, "thread",
                           entry.thread_id, "thread_unread_stale", "in_app",
                           Project)
       IN  IF raised
           THEN /\ npc' = [npc EXCEPT ![n] = "failed"]
                /\ nraised' = [nraised EXCEPT ![n] = @ \cup {entry}]
                /\ UNCHANGED nlist
           ELSE /\ IF is_muted THEN NudgeAdvance(n)
                   ELSE /\ npc' = [npc EXCEPT ![n] = "emit"]
                        /\ UNCHANGED nlist
                /\ UNCHANGED nraised
    /\ UNCHANGED <<latestMsg, msgAge, lastRead, staleLog, nudgeEvents, nscan>>
    /\ UNCHANGED <<laterVars, loopVars, mailVars, handlerVars, prefVars, permVars, resumeVars>>

\* step 3: insert the thread_unread_stale domain event
NudgeEmit(n) ==
    /\ npc[n] = "emit"
    /\ nudgeEvents' = Append(nudgeEvents, Head(nlist[n]))
    /\ npc' = [npc EXCEPT ![n] = "log"]
    /\ UNCHANGED <<latestMsg, msgAge, lastRead, staleLog, nlist, nscan,
                   nraised>>
    /\ UNCHANGED <<laterVars, loopVars, mailVars, handlerVars, prefVars, permVars, resumeVars>>

\* step 3: insert into the dedupe log
NudgeLog(n) ==
    /\ npc[n] = "log"
    /\ staleLog' = Append(staleLog, Head(nlist[n]))
    /\ NudgeAdvance(n)
    /\ UNCHANGED <<latestMsg, msgAge, lastRead, nudgeEvents, nscan, nraised>>
    /\ UNCHANGED <<laterVars, loopVars, mailVars, handlerVars, prefVars, permVars, resumeVars>>

NudgeInit ==
    /\ latestMsg = 0
    /\ msgAge = "fresh"
    /\ lastRead = [u \in Recipients |-> 0]
    /\ staleLog = << >>
    /\ nudgeEvents = << >>
    /\ npc = [n \in NudgeRuns |-> "idle"]
    /\ nlist = [n \in NudgeRuns |-> << >>]
    /\ nscan = [n \in NudgeRuns |-> << >>]
    /\ nraised = [n \in NudgeRuns |-> {}]

NudgeNext ==
    \/ PostMessage
    \/ GrowStale
    \/ \E u \in Recipients : ReadThread(u)
    \/ \E p \in PrefChoices : NudgeSetPrefs(p)
    \/ \E n \in NudgeRuns : NudgeScan(n)
    \/ \E n \in NudgeRuns : NudgeDedupe(n)
    \/ \E n \in NudgeRuns, raised \in BOOLEAN : NudgePref(n, raised)
    \/ \E n \in NudgeRuns : NudgeEmit(n)
    \/ \E n \in NudgeRuns : NudgeLog(n)

\* the scheduler triggers the job again (every 15 minutes) once the
\* previous execution has ended
NudgeRerun(n) ==
    /\ npc[n] \in {"done", "failed"}
    /\ npc' = [npc EXCEPT ![n] = "idle"]
    /\ nlist' = [nlist EXCEPT ![n] = << >>]
    /\ nscan' = [nscan EXCEPT ![n] = << >>]
    /\ nraised' = [nraised EXCEPT ![n] = {}]
    /\ UNCHANGED <<latestMsg, msgAge, lastRead, staleLog, nudgeEvents>>
    /\ UNCHANGED <<laterVars, loopVars, mailVars, handlerVars, prefVars, permVars, resumeVars>>

\* an execution that starts while no other execution is under way
NudgeScanAlone(n) ==
    /\ \A m \in NudgeRuns \ {n} : npc[m] \in {"idle", "done", "failed"}
    /\ NudgeScan(n)

\* executions of the job that follow one another
NudgeSeqNext ==
    \/ PostMessage
    \/ GrowStale
    \/ \E u \in Recipients : ReadThread(u)
    \/ \E p \in PrefChoices : NudgeSetPrefs(p)
    \/ \E n \in NudgeRuns : NudgeScanAlone(n)
    \/ \E n \in NudgeRuns : NudgeDedupe(n)
    \/ \E n \in NudgeRuns, raised \in BOOLEAN : NudgePref(n, raised)
    \/ \E n \in NudgeRuns : NudgeEmit(n)
    \/ \E n \in NudgeRuns : NudgeLog(n)
    \/ \E n \in NudgeRuns : NudgeRerun(n)

-----------------------------------------------------------------------------
(***************************************************************************)
(* Document uploads and permission events (SpecAccess): the handlers run   *)
(* as in SpecHandlers, over events that differ in who can view the         *)
(* resource, who the affected user is and whether the change is an upgrade *)
(***************************************************************************)

AllUsers == {Actor} \cup Recipients

\* the affected user is another member, or the owner who made the change
AccessEvents ==
    {Upload(<<Actor, "bob", "cy">>, "", {}),
     Upload(<<Actor, "bob", "cy">>, "r1", {Actor, "bob"}),
     Upload(<<Actor, "bob", "cy">>, "r1", AllUsers),
     Event("project_access_granted", <<"bob">>, "", {}, FALSE),
     Event("project_access_granted", <<Actor>>, "", {}, FALSE),
     Event("project_access_changed", <<Actor>>, "", {}, TRUE),
     Event("project_access_revoked", <<"bob">>, "", {}, FALSE),
     Event("document_permission_granted", <<"bob">>, "", {}, FALSE)}
    \cup {Event(t, <<"bob">>, "", {}, up) :
            t \in {"project_access_changed", "document_permission_changed"},
            up \in BOOLEAN}

\* bob mutes nothing, the project, or everything
AccessPrefChoices ==
    { << >>,
      <<Pref("bob", "project", Project, "*", "in_app", "muted")>>,
      <<Pref("bob", "global", "", "*", "*", "muted")>> }

\* bob mutes the emails about uploads to the project, and nothing in the app
EmailPrefChoices ==
    { <<Pref("bob", "project", Project, "document_uploaded", "email",
             "muted")>> }

\* an upload or a permission change is recorded
EmitAccess(ev) ==
    /\ Len(hevents) < NAccess
    /\ AddEvent(ev)

AccessNext ==
    \/ \E p \in AccessPrefChoices : SetPrefs(p)
    \/ \E ev \in AccessEvents : EmitAccess(ev)
    \/ \E x \in Executors, e \in 1..NAccess : Begin(x, e)
    \/ \E x \in Executors : Dedupe(x)
    \/ \E x \in Executors : Notify(x)
    \/ \E x \in Executors : QueueEmail(x)
    \/ \E x \in Executors : Return(x)
    \/ \E x \in Executors : Abort(x)

\* the same handlers over preference tables that mute one channel only
AccessEmailNext ==
    \/ AccessNext
    \/ \E p \in EmailPrefChoices : SetPrefs(p)

-----------------------------------------------------------------------------
(***************************************************************************)
(* update_member_permissions (api/routes/users.py) for one member of the   *)
(* org and one project with two roots, a folder and three files            *)
(***************************************************************************)

\* the resources of the project: id -> resource_type and parent_id
ResourceTree ==
    [dr |-> [resource_type |-> "PROJECT_DOCS_ROOT", parent_id |-> ""],
     rr |-> [resource_type |-> "PROJECT_RESUME", parent_id |-> ""],
     fo |-> [resource_type |-> "FOLDER", parent_id |-> "dr"],
     f1 |-> [resource_type |-> "FILE", parent_id |-> "dr"],
     f2 |-> [resource_type |-> "FILE", parent_id |-> "fo"],
     f3 |-> [resource_type |-> "FILE", parent_id |-> "rr"]]

ResourceIds == DOMAIN ResourceTree
Files == <<"f1", "f2", "f3">>
DocsRootTypes == {"PROJECT_DOCS_ROOT", "BORROWER_DOCS_ROOT"}

\* the resource of this type of the project ("" when there is none)
ResourceOfType(resource_type) ==
    IF \E r \in ResourceIds : ResourceTree[r].resource_type = resource_type
    THEN CHOOSE r \in ResourceIds : ResourceTree[r].resource_type = resource_type
    ELSE ""

\* find_root_for_resource: the root_type of the first docs root met going up
\* the parent chain ("" for None)
RECURSIVE find_root_from(_, _)
find_root_from(current, visited) ==
    IF ResourceTree[current].parent_id = "" \/ current \in visited THEN ""
    ELSE LET parent == ResourceTree[current].parent_id
         IN  IF parent \notin ResourceIds THEN ""
             ELSE IF ResourceTree[parent].resource_type \in DocsRootTypes
             THEN ResourceTree[parent].resource_type
             ELSE find_root_from(parent, visited \cup {current})

find_root_for_resource(resource_id) ==
    IF resource_id \notin ResourceIds THEN ""
    ELSE find_root_from(resource_id, {})

\* explicit_perms_map: the member's rows on the files
explicit_perms_map(perms, f) ==
    IF perms[f] = "" THEN ""
    ELSE IF perms[f] \notin {"edit", "view", "none"} THEN "view" ELSE perms[f]

\* root_perms_map: the member's rows on the docs roots, keyed by root type
root_perms_map(perms, root_type) ==
    LET r == ResourceOfType(root_type)
    IN  IF r = "" \/ perms[r] = "" THEN ""
        ELSE IF perms[r] \notin {"edit", "view"} THEN "view" ELSE perms[r]

\* before_doc_perms / after_doc_perms: the permission_level of each file,
\* "" for a file that is not in the list
doc_perms(perms) ==
    [f \in SeqToSet(Files) |->
        LET explicit_perm == explicit_perms_map(perms, f)
            root_info == find_root_for_resource(f)
        IN  IF explicit_perm # "" THEN explicit_perm
            ELSE IF root_info # "" THEN root_perms_map(perms, root_info)
            ELSE ""]

\* before_grants: "view" unless the row on PROJECT_DOCS_ROOT says edit
before_grants(grants, perms) ==
    IF Project \notin grants THEN ""
    ELSE LET docs_root == ResourceOfType("PROJECT_DOCS_ROOT")
         IN  IF docs_root # "" /\ perms[docs_root] = "edit" THEN "edit"
             ELSE "view"

\* after_grants: built from the request, edit if any permission is edit
after_grants(req) ==
    IF ~req.has_grant THEN ""
    ELSE IF \E i \in 1..Len(req.permissions) :
                req.permissions[i].permission = "edit"
    THEN "edit" ELSE "view"

\* rpc grant_project_access: the grant row, and one permission row per
\* resource type of the payload
RECURSIVE grant_project_access(_, _)
grant_project_access(perms, p_permissions) ==
    IF p_permissions = << >> THEN perms
    ELSE LET r == ResourceOfType(Head(p_permissions).resource_type)
             next == IF r = "" THEN perms
                     ELSE [perms EXCEPT ![r] = Head(p_permissions).permission]
         IN  grant_project_access(next, Tail(p_permissions))

\* the upsert of the fileOverrides rows
RECURSIVE upsert_overrides(_, _)
upsert_overrides(perms, rows) ==
    IF rows = << >> THEN perms
    ELSE upsert_overrides(
            IF Head(rows).permission \in {"none", "view", "edit"}
            THEN [perms EXCEPT ![Head(rows).resource_id] = Head(rows).permission]
            ELSE perms,
            Tail(rows))

\* steps 1 and 2: every row of the member is removed, then the request's
\* grants are applied
applied_permissions(req) ==
    LET removed == [r \in ResourceIds |-> ""]
    IN  IF ~req.has_grant THEN removed
        ELSE upsert_overrides(grant_project_access(removed, req.permissions),
                              req.fileOverrides)

applied_grants(req) == IF req.has_grant THEN {Project} ELSE {}

PermEvent(event_type, item, old, new) ==
    [event_type |-> event_type, item |-> item, old_permission |-> old,
     new_permission |-> new, request |-> requests + 1]

\* the project-level diff and its events: access_granted, and
\* access_changed for view -> edit only
project_events(old_level, new_level) ==
    IF new_level = "" THEN << >>
    ELSE IF old_level = ""
    THEN <<PermEvent("project_access_granted", Project, "", new_level)>>
    ELSE IF old_level # new_level /\ old_level = "view" /\ new_level = "edit"
    THEN <<PermEvent("project_access_changed", Project, old_level, new_level)>>
    ELSE << >>

\* the document-level diff of one file and its event: doc_granted, and
\* doc_changed for view -> edit only
doc_events(f, before_val, new_level) ==
    IF new_level = "" THEN << >>
    ELSE IF before_val = ""
    THEN IF new_level = "none" THEN << >>
         ELSE <<PermEvent("document_permission_granted", f, "", new_level)>>
    ELSE IF before_val = new_level THEN << >>
    ELSE IF new_level = "none" THEN << >>
    ELSE IF before_val = "none"
    THEN <<PermEvent("document_permission_granted", f, "", new_level)>>
    ELSE IF before_val = "view" /\ new_level = "edit"
    THEN <<PermEvent("document_permission_changed", f, before_val, new_level)>>
    ELSE << >>

\* a grant of the request: permission levels for the two root types
Grant(docs, resume) ==
    (IF docs = "" THEN << >>
     ELSE <<[resource_type |-> "PROJECT_DOCS_ROOT", permission |-> docs]>>)
    \o (IF resume = "" THEN << >>
        ELSE <<[resource_type |-> "PROJECT_RESUME", permission |-> resume]>>)

\* requests: no grant at all, or a grant for the project with at least one
\* permission and at most one override, on a file or on the docs root
PermRequests ==
    {[has_grant |-> FALSE, permissions |-> << >>, fileOverrides |-> << >>]}
    \cup {[has_grant |-> TRUE, permissions |-> Grant(d, r), fileOverrides |-> o] :
            d \in {"", "view", "edit"}, r \in {"", "view", "edit"},
            o \in {<< >>} \cup {<<[resource_id |-> x, permission |-> p]>> :
                        x \in {"f1", "f2", "dr"},
                        p \in {"none", "view", "edit"}}}

\* POST /update-member-permissions by an owner of the org
update_member_permissions(req) ==
    /\ requests < NRequests
    /\ req.has_grant => req.permissions # << >>
    /\ LET before == before_grants(project_access_grants, permissions)
           before_doc_perms == doc_perms(permissions)
           after == after_grants(req)
           after_doc_perms == doc_perms(applied_permissions(req))
       IN  /\ project_access_grants' = applied_grants(req)
           /\ permissions' = applied_permissions(req)
           /\ snap' = [request |-> req,
                       prev_grants |-> project_access_grants,
                       prev_permissions |-> permissions,
                       before_grants |-> before, after_grants |-> after,
                       before_doc_perms |-> before_doc_perms,
                       after_doc_perms |-> after_doc_perms]
           /\ permEvents' = permEvents
                \o project_events(before, after)
                \o Concat([i \in 1..Len(Files) |->
                     doc_events(Files[i], before_doc_perms[Files[i]],
                                after_doc_perms[Files[i]])])
    /\ requests' = requests + 1
    /\ UNCHANGED <<laterVars, loopVars, mailVars, handlerVars, prefVars, nudgeVars, resumeVars>>

PermsInit ==
    /\ project_access_grants = {}
    /\ permissions = [r \in ResourceIds |-> ""]
    /\ permEvents = << >>
    /\ requests = 0
    /\ snap = [request |-> [has_grant |-> FALSE, permissions |-> << >>,
                            fileOverrides |-> << >>],
               prev_grants |-> {}, prev_permissions |-> [r \in ResourceIds |-> ""],
               before_grants |-> "", after_grants |-> "",
               before_doc_perms |-> [f \in SeqToSet(Files) |-> ""],
               after_doc_perms |-> [f \in SeqToSet(Files) |-> ""]]

PermsNext == \E req \in PermRequests : update_member_permissions(req)

-----------------------------------------------------------------------------
(***************************************************************************)
(* Resume-incomplete nudge scheduler (resume-incomplete-nudges/main.py)    *)
(* for one project, one owner and one resume kind; times are in ms         *)
(***************************************************************************)

\* NUDGE_INTERVALS as written: 1 * 1000, then 3, 5 and 7 days
NUDGE_INTERVALS == <<1 * 1000, 3 * 24 * 60 * 60 * 1000, 5 * 24 * 60 * 60 * 1000, 7 * 24 * 60 * 60 * 1000>>

\* the instants the clock takes: each threshold and the ms before it, and
\* one instant past the first and the last threshold
TimePoints ==
    {0, 999, 1000, 2000, 259199999, 259200000, 431999999, 432000000,
     604799999, 604800000, 604801000}

\* the tier one below the right one
get_nudge_tier_shifted(time_since_edit_ms) ==
    IF time_since_edit_ms < NUDGE_INTERVALS[2] THEN 0
    ELSE IF time_since_edit_ms < NUDGE_INTERVALS[3] THEN 1
    ELSE IF time_since_edit_ms < NUDGE_INTERVALS[4] THEN 2
    ELSE 3

\* the loop of get_nudge_tier from index i on; 0 stands for None
RECURSIVE get_nudge_tier_from(_, _)
get_nudge_tier_from(i, time_since_edit_ms) ==
    IF i > Len(NUDGE_INTERVALS) THEN 0
    ELSE IF /\ time_since_edit_ms >= NUDGE_INTERVALS[i]
            /\ (i < Len(NUDGE_INTERVALS)
                  => time_since_edit_ms < NUDGE_INTERVALS[i + 1])
    THEN i
    ELSE get_nudge_tier_from(i + 1, time_since_edit_ms)

get_nudge_tier(time_since_edit_ms) ==
    get_nudge_tier_from(1, time_since_edit_ms)

\* time passes
Tick(t) ==
    /\ t > rnow
    /\ rnow' = t
    /\ UNCHANGED <<last_edit, complete, resumeNudges, resumeEvents, rdelivered,
                   lastRun>>
    /\ UNCHANGED <<laterVars, loopVars, mailVars, handlerVars, prefVars, nudgeVars, permVars>>

\* the owner edits the resume, completing it or not
EditResume(done) ==
    /\ rnow > last_edit
    /\ last_edit' = rnow
    /\ complete' = done
    /\ UNCHANGED <<rnow, resumeNudges, resumeEvents, rdelivered, lastRun>>
    /\ UNCHANGED <<laterVars, loopVars, mailVars, handlerVars, prefVars, nudgeVars, permVars>>

\* send_resume_nudges reaches the owner's resume: process_resume_nudge when
\* it is incomplete
process_resume_nudge ==
    /\ ~complete
    /\ Len(resumeEvents) < NResumeEvents
    /\ LET time_since_edit_ms == rnow - last_edit
           nudge_tier == get_nudge_tier(time_since_edit_ms)
           existing_nudges == resumeNudges
           nudge_ids_to_delete ==
               {n \in existing_nudges : last_edit > n.created_at}
           existing_tier_nudge ==
               \E n \in existing_nudges : n.nudge_tier = nudge_tier
           created == nudge_tier # 0 /\ ~existing_tier_nudge
       IN  /\ resumeNudges' = IF nudge_tier = 0 THEN resumeNudges
                              ELSE resumeNudges \ nudge_ids_to_delete
           /\ resumeEvents' = IF created
                              THEN Append(resumeEvents,
                                     [nudge_tier |-> nudge_tier, at |-> rnow])
                              ELSE resumeEvents
           /\ lastRun' = [ran |-> TRUE, elapsed |-> time_since_edit_ms,
                          last_edit_time |-> last_edit,
                          tier |-> nudge_tier,
                          existing |-> existing_nudges,
                          deleted |-> IF nudge_tier = 0 THEN {}
                                      ELSE nudge_ids_to_delete,
                          created |-> created]
    /\ UNCHANGED <<rnow, last_edit, complete, rdelivered>>
    /\ UNCHANGED <<laterVars, loopVars, mailVars, handlerVars, prefVars, nudgeVars, permVars>>

\* handle_resume_incomplete_nudge for the oldest event not handled yet: a
\* notification, unless one of this tier exists
DeliverNudge ==
    /\ rdelivered < Len(resumeEvents)
    /\ rdelivered' = rdelivered + 1
    /\ LET ev == resumeEvents[rdelivered + 1]
       IN  resumeNudges' =
             IF \E n \in resumeNudges : n.nudge_tier = ev.nudge_tier
             THEN resumeNudges
             ELSE resumeNudges \cup
                    {[id |-> rdelivered + 1, nudge_tier |-> ev.nudge_tier,
                      created_at |-> rnow]}
    /\ UNCHANGED <<rnow, last_edit, complete, resumeEvents, lastRun>>
    /\ UNCHANGED <<laterVars, loopVars, mailVars, handlerVars, prefVars, nudgeVars, permVars>>

ResumeInit ==
    /\ rnow = 0
    /\ last_edit = 0
    /\ complete = FALSE
    /\ resumeNudges = {}
    /\ resumeEvents = << >>
    /\ rdelivered = 0
    /\ lastRun = [ran |-> FALSE, elapsed |-> 0, last_edit_time |-> 0,
                  tier |-> 0, existing |-> {},
                  deleted |-> {}, created |-> FALSE]

ResumeNext ==
    \/ \E t \in TimePoints : Tick(t)
    \/ \E done \in BOOLEAN : EditResume(done)
    \/ process_resume_nudge
    \/ DeliverNudge

-----------------------------------------------------------------------------
(***************************************************************************)
(* Sliding-window email digest (scheduled/email-digest): the clock moves   *)
(* in half days, so that two runs can share a digest date                  *)
(***************************************************************************)

DigestRuns == {"d1", "d2"}
DigestUsers == <<"bob", "cy">>

SKIP_IDEMPOTENCY_CHECK == FALSE  \* Config.SKIP_IDEMPOTENCY_CHECK, its default

\* window_end.date()
DateOf(t) == t \div 2

\* the instants of the clock: two digest dates of two half days each
DigestClock == 0..3

\* the rows of domain_events the digest can meet: who the preferences keep
\* the event in the digest for, who its recipients are, its resource and
\* who can view it
DigestCatalog ==
    { [digest_for |-> {"bob", "cy"}, recipients |-> {"bob", "cy"},
       resource_id |-> "", can_view |-> {}],
      [digest_for |-> {"bob"}, recipients |-> {"bob", "cy"},
       resource_id |-> "r1", can_view |-> {"bob"}] }

InWindow(start_time, end_time) ==
    {i \in 1..Len(domain_events) :
        /\ domain_events[i].occurred_at >= start_time
        /\ domain_events[i].occurred_at < end_time}

\* the skip_idempotency branch: every domain event, whatever its time
get_unprocessed_events_skip_idempotency(user_id, digest_date, start_time, end_time, rpc_ok) ==
    1..Len(domain_events)

\* rpc get_unprocessed_digest_events
get_unprocessed_digest_events(user_id, digest_date, start_time, end_time) ==
    {i \in InWindow(start_time, end_time) :
        <<i, user_id, digest_date>> \notin email_digest_processed}

\* Database.get_unprocessed_events: the RPC, or when it raises the query
\* of the window filtered by the markers of this user and date
get_unprocessed_events(user_id, digest_date, start_time, end_time, rpc_ok) ==
    IF SKIP_IDEMPOTENCY_CHECK
    THEN get_unprocessed_events_skip_idempotency(user_id, digest_date,
                                                 start_time, end_time, rpc_ok)
    ELSE IF rpc_ok
    THEN get_unprocessed_digest_events(user_id, digest_date, start_time,
                                       end_time)
    ELSE LET events == InWindow(start_time, end_time)
             processed_event_ids ==
                 {m[1] : m \in {k \in email_digest_processed :
                                    k[2] = user_id /\ k[3] = digest_date}}
         IN  {i \in events : i \notin processed_event_ids}

filter_events_by_preferences(events, user_id) ==
    {i \in events : user_id \in domain_events[i].digest_for}

\* process_user_digest, lines 68-108: the recipients and resource filters
recipient_events(filtered_events, user_id) ==
    {i \in filtered_events :
        /\ user_id \in domain_events[i].recipients
        /\ domain_events[i].resource_id # "" =>
               user_id \in domain_events[i].can_view}

DigestTick ==
    /\ dnow + 1 \in DigestClock
    /\ dnow' = dnow + 1
    /\ UNCHANGED <<domain_events, email_digest_processed, dpc, dusers, ddate,
                   dend, dfound, dknown, digestLog>>
    /\ UNCHANGED outsideDigest

\* a mutation or a scheduler appends a domain event
DigestAppend(row) ==
    /\ Len(domain_events) < NDigestEvents
    /\ domain_events' = Append(domain_events,
           [occurred_at |-> dnow, digest_for |-> row.digest_for,
            recipients |-> row.recipients, resource_id |-> row.resource_id,
            can_view |-> row.can_view])
    /\ UNCHANGED <<dnow, email_digest_processed, dpc, dusers, ddate, dend,
                   dfound, dknown, digestLog>>
    /\ UNCHANGED outsideDigest

\* main(): the window, the digest date and the users
DigestStart(r) ==
    /\ dpc[r] = "idle"
    /\ dend' = [dend EXCEPT ![r] = dnow]
    /\ ddate' = [ddate EXCEPT ![r] = DateOf(dnow)]
    /\ dusers' = [dusers EXCEPT ![r] = DigestUsers]
    /\ dpc' = [dpc EXCEPT ![r] = "fetch"]
    /\ UNCHANGED <<dnow, domain_events, email_digest_processed, dfound,
                   dknown, digestLog>>
    /\ UNCHANGED outsideDigest

\* the user is done with: the next one, or the end of the run
DigestAdvance(r) ==
    /\ dusers' = [dusers EXCEPT ![r] = Tail(@)]
    /\ dpc' = [dpc EXCEPT ![r] = IF Len(dusers[r]) > 1 THEN "fetch" ELSE "done"]
    /\ dfound' = [dfound EXCEPT ![r] = {}]
    /\ dknown' = [dknown EXCEPT ![r] = {}]

\* process_user_digest up to the build of the email; an exception
\* (raised) is caught and the user is left out of this run
DigestFetch(r, rpc_ok, raised) ==
    /\ dpc[r] = "fetch"
    /\ LET user_id == Head(dusers[r])
           events == get_unprocessed_events(user_id, ddate[r], dend[r] - 2,
                                            dend[r], rpc_ok)
           filtered_events == filter_events_by_preferences(events, user_id)
           found == recipient_events(filtered_events, user_id)
       IN  IF raised \/ found = {}
           THEN DigestAdvance(r)
           ELSE /\ dfound' = [dfound EXCEPT ![r] = found]
                /\ dknown' = [dknown EXCEPT ![r] =
                       {m[1] : m \in {k \in email_digest_processed :
                                  k[2] = user_id /\ k[3] = ddate[r]}}]
                /\ dpc' = [dpc EXCEPT ![r] = "send"]
                /\ UNCHANGED dusers
    /\ UNCHANGED <<dnow, domain_events, email_digest_processed, ddate, dend,
                   digestLog>>
    /\ UNCHANGED outsideDigest

\* send_digest_email: True, or False / an exception
DigestSend(r, success) ==
    /\ dpc[r] = "send"
    /\ IF success
       THEN /\ digestLog' = digestLog \cup
                   {[user_id |-> Head(dusers[r]), digest_date |-> ddate[r],
                     events |-> dfound[r], known |-> dknown[r]]}
            /\ dpc' = [dpc EXCEPT ![r] = "mark"]
            /\ UNCHANGED <<dusers, dfound, dknown>>
       ELSE /\ DigestAdvance(r)
            /\ UNCHANGED digestLog
    /\ UNCHANGED <<dnow, domain_events, email_digest_processed, ddate, dend>>
    /\ UNCHANGED outsideDigest

\* Database.mark_events_processed: the bulk upsert records every marker;
\* when it raises, the individual upserts record those that land
mark_events_processed(events, user_id, digest_date, landed) ==
    IF SKIP_IDEMPOTENCY_CHECK THEN email_digest_processed
    ELSE email_digest_processed \cup
             {<<i, user_id, digest_date>> : i \in events \cap landed}

DigestMark(r, landed) ==
    /\ dpc[r] = "mark"
    /\ email_digest_processed' =
           mark_events_processed(dfound[r], Head(dusers[r]), ddate[r], landed)
    /\ DigestAdvance(r)
    /\ UNCHANGED <<dnow, domain_events, ddate, dend, digestLog>>
    /\ UNCHANGED outsideDigest

DigestInit ==
    /\ dnow = 0
    /\ domain_events = << >>
    /\ email_digest_processed = {}
    /\ dpc = [r \in DigestRuns |-> "idle"]
    /\ dusers = [r \in DigestRuns |-> << >>]
    /\ ddate = [r \in DigestRuns |-> 0]
    /\ dend = [r \in DigestRuns |-> 0]
    /\ dfound = [r \in DigestRuns |-> {}]
    /\ dknown = [r \in DigestRuns |-> {}]
    /\ digestLog = {}

DigestNext ==
    \/ DigestTick
    \/ \E row \in DigestCatalog : DigestAppend(row)
    \/ \E r \in DigestRuns : DigestStart(r)
    \/ \E r \in DigestRuns, rpc_ok \in BOOLEAN, raised \in BOOLEAN :
           DigestFetch(r, rpc_ok, raised)
    \/ \E r \in DigestRuns, success \in BOOLEAN : DigestSend(r, success)
    \/ \E r \in DigestRuns : \E landed \in SUBSET dfound[r] :
           DigestMark(r, landed)

-----------------------------------------------------------------------------
(***************************************************************************)
(* renew-calendar-watches: the daily job that replaces the calendar watch  *)
(* channels about to expire                                                *)
(***************************************************************************)

Connections == <<"k1", "k2">>
ConnIds == {Connections[k] : k \in 1..Len(Connections)}

\* DRY_RUN of this job's environment
dry_run == FALSE

\* the select of main(): the connections with a watch channel whose
\* expiration is within the threshold, as rows
connections_needing_renewal ==
    LET F[i \in 0..Len(Connections)] ==
            IF i = 0 THEN << >>
            ELSE IF watch[Connections[i]] # 0 /\ due[Connections[i]]
                 THEN Append(F[i - 1], [id |-> Connections[i],
                                        watch_channel_id |-> watch[Connections[i]]])
                 ELSE F[i - 1]
    IN  F[Len(Connections)]

StopOutcomes == {"stopped", "http_error", "raised"}
SetupOutcomes == {"ok", "refused", "update_raises"}

\* a stop_calendar_watch without its try/except: the token refresh or the
\* request raising reaches the caller
stop_calendar_watch_propagating(outcome) ==
    [raised |-> outcome = "raised", stopped |-> outcome = "stopped"]

\* stop_calendar_watch(connection): the channel is stopped, or the provider
\* answers with an error status, or the token refresh or the request raises;
\* the last two are logged and the function returns normally
stop_calendar_watch(outcome) ==
    [raised |-> FALSE, stopped |-> outcome = "stopped"]

\* end of the for-body: next connection, or the end of the job
RenewAdvance ==
    IF wi < Len(wconns)
    THEN wi' = wi + 1 /\ wpc' = "stop"
    ELSE wi' = 0 /\ wpc' = "done"

\* time passes: the watch of a connection comes within 24 hours of expiry
WatchNearsExpiry(c) ==
    /\ watch[c] # 0
    /\ ~due[c]
    /\ due' = [due EXCEPT ![c] = TRUE]
    /\ UNCHANGED <<watch, live, chanSeq, wpc, wconns, wi, wlog>>
    /\ UNCHANGED outsideRenew

\* main(): the select; an exception here is fatal to the run
RenewStart(fetch_ok) ==
    /\ wpc \in {"idle", "done"}
    /\ LET connections == IF fetch_ok THEN connections_needing_renewal
                          ELSE << >>
       IN  /\ wconns' = connections
           /\ wi' = IF connections = << >> THEN 0 ELSE 1
           /\ wpc' = IF connections = << >> THEN "done" ELSE "stop"
    /\ wlog' = << >>
    /\ UNCHANGED <<watch, due, live, chanSeq>>
    /\ UNCHANGED outsideRenew

\* for connection in connections: stop the old watch first
RenewStop(outcome) ==
    /\ wpc = "stop"
    /\ IF dry_run
       THEN /\ RenewAdvance
            /\ UNCHANGED <<live, wlog>>
       ELSE LET r == stop_calendar_watch(outcome)
                old == wconns[wi].watch_channel_id
            IN  /\ live' = IF r.stopped THEN live \ {old} ELSE live
                /\ wlog' = Append(wlog, [conn |-> wconns[wi].id,
                                         call |-> "stop",
                                         ok |-> r.stopped,
                                         channel |-> old])
                /\ IF r.raised
                   THEN RenewAdvance
                   ELSE wpc' = "setup" /\ wi' = wi
    /\ UNCHANGED <<watch, due, chanSeq, wconns>>
    /\ UNCHANGED outsideRenew

\* setup_calendar_watch(connection, supabase): a new channel is requested
\* and recorded on the connection; the token refresh or the watch request
\* may raise (nothing created), and so may the final update (the channel
\* exists, the connection keeps its old values)
RenewSetup(outcome) ==
    /\ wpc = "setup"
    /\ outcome # "refused" => chanSeq < NChannels
    /\ LET c == wconns[wi].id
           channel_id == chanSeq + 1
       IN  /\ chanSeq' = IF outcome = "refused" THEN chanSeq ELSE channel_id
           /\ live' = IF outcome = "refused" THEN live
                      ELSE live \cup {channel_id}
           /\ watch' = IF outcome = "ok"
                       THEN [watch EXCEPT ![c] = channel_id] ELSE watch
           /\ due' = IF outcome = "ok" THEN [due EXCEPT ![c] = FALSE] ELSE due
           /\ wlog' = Append(wlog, [conn |-> c, call |-> "setup",
                                    ok |-> outcome = "ok",
                                    channel |-> IF outcome = "refused" THEN 0
                                                ELSE channel_id])
    /\ RenewAdvance
    /\ UNCHANGED wconns
    /\ UNCHANGED outsideRenew

RenewInit ==
    /\ watch = [c \in ConnIds |-> IF c = "k1" THEN 1 ELSE 2]
    /\ due = [c \in ConnIds |-> FALSE]
    /\ live = {1, 2}
    /\ chanSeq = 2
    /\ wpc = "idle"
    /\ wconns = << >>
    /\ wi = 0
    /\ wlog = << >>

RenewNext ==
    \/ \E c \in ConnIds : WatchNearsExpiry(c)
    \/ \E fetch_ok \in BOOLEAN : RenewStart(fetch_ok)
    \/ \E outcome \in StopOutcomes : RenewStop(outcome)
    \/ \E outcome \in SetupOutcomes : RenewSetup(outcome)

-----------------------------------------------------------------------------
(***************************************************************************)
(* The dispatchers next to handlers that run again for an event they have  *)
(* already queued emails for (a re-driven event, two overlapping           *)
(* executions)                                                             *)
(***************************************************************************)

\* db.queue_email(...) of a handler executing again for the event of row
\* id: the same key, the same columns
Requeue(id) ==
    /\ id \in 1..Len(pending_emails)
    /\ requeues < NRequeue
    /\ requeues' = requeues + 1
    /\ pending_emails' =
          queue_email(pending_emails, pending_emails[id].user_id,
                      pending_emails[id].event_id,
                      pending_emails[id].event_type,
                      pending_emails[id].delivery_type)
    /\ UNCHANGED <<mailCtl, loopVars, handlerVars, prefVars, nudgeVars,
                   permVars, resumeVars, digestVars, renewVars, fanVars, snd,
                   walk>>

RequeueNext ==
    \/ MailNext
    \/ \E id \in MailIds : Requeue(id)

-----------------------------------------------------------------------------
(***************************************************************************)
(* The resume nudge scheduler next to two fan-out workers that handle its  *)
(* events (handle_resume_incomplete_nudge), one store call at a time       *)
(***************************************************************************)

outsideResumeFan == <<loopVars, mailVars, handlerVars, prefVars, nudgeVars,
                      permVars, digestVars, renewVars, requeues, snd, walk>>

\* the loop of a worker claims a nudge event and dispatches it
FanBegin(x) ==
    /\ rwork[x].ev = 0
    /\ \E e \in 1..Len(resumeEvents) :
           /\ e \notin rtaken
           /\ rtaken' = rtaken \cup {e}
           /\ rwork' = [rwork EXCEPT ![x] = [ev |-> e, pc |-> "lookup",
                                             found |-> FALSE]]
    /\ UNCHANGED resumeVars
    /\ UNCHANGED outsideResumeFan

\* "Check for existing tier notification": the select of the user's
\* notifications, filtered in Python by type, resume_type, tier and project
FanLookup(x) ==
    /\ rwork[x].ev # 0 /\ rwork[x].pc = "lookup"
    /\ rwork' = [rwork EXCEPT ![x].pc = "create",
                              ![x].found =
                                 \E n \in resumeNudges :
                                     n.nudge_tier =
                                         resumeEvents[rwork[x].ev].nudge_tier]
    /\ UNCHANGED <<rtaken, resumeVars>>
    /\ UNCHANGED outsideResumeFan

\* return (0, 0) when the lookup found the tier, else create_notification
\* under the event's id
FanCreate(x) ==
    /\ rwork[x].ev # 0 /\ rwork[x].pc = "create"
    /\ resumeNudges' =
          IF rwork[x].found THEN resumeNudges
          ELSE resumeNudges \cup
                 {[id |-> rwork[x].ev,
                   nudge_tier |-> resumeEvents[rwork[x].ev].nudge_tier,
                   created_at |-> rnow]}
    /\ rwork' = [rwork EXCEPT ![x] = [ev |-> 0, pc |-> "idle",
                                      found |-> FALSE]]
    /\ UNCHANGED <<rtaken, rnow, last_edit, complete, resumeEvents,
                   rdelivered, lastRun>>
    /\ UNCHANGED outsideResumeFan

FanInit ==
    /\ rtaken = {}
    /\ rwork = [x \in Executors |-> [ev |-> 0, pc |-> "idle",
                                      found |-> FALSE]]

ResumeFanNext ==
    \/ \E t \in TimePoints : Tick(t)
    \/ \E done \in BOOLEAN : EditResume(done)
    \/ process_resume_nudge
    \/ \E x \in Executors : FanBegin(x)
    \/ \E x \in Executors : FanLookup(x)
    \/ \E x \in Executors : FanCreate(x)

-----------------------------------------------------------------------------
(***************************************************************************)
(* send_email and _send_with_throttle_retry of the two email dispatchers   *)
(* (scheduled/email-notifications and scheduled/email-digest)              *)
(***************************************************************************)

MAX_RETRIES == 3

NSend == 3

outsideSend == <<loopVars, mailVars, handlerVars, prefVars, nudgeVars,
                 permVars, resumeVars, digestVars, renewVars, requeues,
                 fanVars, walk>>

Senders == {"email-notifications", "email-digest"}

\* what resend.Emails.send can raise: the exception class and the words of
\* its message, lower-cased
ProviderErrors ==
    { [cls |-> "RateLimitError", words |-> {"rate", "limit", "exceeded"}],
      [cls |-> "RateLimitError", words |-> {"too", "many", "requests"}],
      [cls |-> "ResendError", words |-> {"attachment", "size", "limit"}],
      [cls |-> "ResendError", words |-> {"invalid", "from", "address"}],
      [cls |-> "Exception", words |-> {"connection", "reset"}] }

\* a response with an id, a response without one, or an exception
ProviderOutcomes ==
    {[cls |-> "id", words |-> {}], [cls |-> "no_id", words |-> {}]}
        \cup ProviderErrors

NoOutcome == [cls |-> "none", words |-> {}]

\* the except clauses of the loop: which exceptions go round again.
\* email-notifications catches ResendError and looks for "rate", "429" or
\* "limit" in str(err).lower(); email-digest catches RateLimitError
IsRetried(impl, err) ==
    IF impl = "email-notifications"
    THEN /\ err.cls \in {"RateLimitError", "ResendError"}
         /\ err.words \cap {"rate", "429", "limit"} # {}
    ELSE err.cls = "RateLimitError"

\* the wait before an attempt, in units of THROTTLE_DELAY
sleep_for(attempt) == IF attempt > 1 THEN attempt ELSE 1

SendInit ==
    snd = [impl |-> "email-notifications", pc |-> "idle", attempt |-> 0,
           calls |-> 0, waits |-> <<>>, last |-> NoOutcome,
           result |-> "none", sent |-> 0]

\* send_email(...) with DRY_RUN off: the loop starts at attempt 1
send_email(impl) ==
    /\ snd.pc = "idle"
    /\ snd.sent < NSend
    /\ snd' = [impl |-> impl, pc |-> "sleep", attempt |-> 1, calls |-> 0,
               waits |-> <<>>, last |-> NoOutcome, result |-> "none",
               sent |-> snd.sent + 1]
    /\ UNCHANGED outsideSend

\* time.sleep at the head of an attempt
ThrottleSleep ==
    /\ snd.pc = "sleep"
    /\ snd' = [snd EXCEPT !.pc = "call",
                          !.waits = Append(@, sleep_for(snd.attempt))]
    /\ UNCHANGED outsideSend

\* resend.Emails.send(params) and what the attempt does with its outcome;
\* an exception that leaves the loop is caught by send_email, which
\* returns False
_send_with_throttle_retry(o) ==
    /\ snd.pc = "call"
    /\ snd' =
         IF o.cls = "id"
         THEN [snd EXCEPT !.pc = "idle", !.calls = @ + 1, !.last = o,
                          !.result = "True"]
         ELSE IF o.cls = "no_id"
         THEN [snd EXCEPT !.pc = "idle", !.calls = @ + 1, !.last = o,
                          !.result = "False"]
         ELSE IF IsRetried(snd.impl, o) /\ snd.attempt # MAX_RETRIES
         THEN [snd EXCEPT !.pc = "sleep", !.calls = @ + 1, !.last = o,
                          !.attempt = @ + 1]
         ELSE [snd EXCEPT !.pc = "idle", !.calls = @ + 1, !.last = o,
                          !.result = "False"]
    /\ UNCHANGED outsideSend

SendNext ==
    \/ \E impl \in Senders : send_email(impl)
    \/ ThrottleSleep
    \/ \E o \in ProviderOutcomes : _send_with_throttle_retry(o)

-----------------------------------------------------------------------------
(***************************************************************************)
(* find_root_for_resource and find_root_for_resource_after (users.py) as   *)
(* loops over whatever rows the resources table returned: parent_id may    *)
(* be null, name a row that was not fetched, or close a cycle              *)
(***************************************************************************)

NResources == 3

outsideWalk == <<loopVars, mailVars, handlerVars, prefVars, nudgeVars,
                 permVars, resumeVars, digestVars, renewVars, requeues,
                 fanVars, snd>>

\* ids of the fetched rows; NotFetched is an id with no row
ResourceRows == 1..NResources
NotFetched == NResources + 1

\* all_resources_response.data / all_resources_after_response.data:
\* parent_id 0 is null; the last row is a folder or the docs root, the
\* other rows are folders and files, which the walk treats alike
ParentGraphs ==
    {rows \in [ResourceRows -> [resource_type : {"FOLDER", "PROJECT_DOCS_ROOT"},
                                parent_id : 0..NotFetched]] :
        \A r \in ResourceRows :
            r # NResources => rows[r].resource_type = "FOLDER"}

\* while current.get("parent_id") and ... with no test of visited
LoopContinuesUnguarded(w) == w.rows[w.current].parent_id # 0

\* while current.get("parent_id") and current["id"] not in visited
LoopContinues(w) ==
    /\ w.rows[w.current].parent_id # 0
    /\ w.current \notin w.visited

WalkInit ==
    walk = [pc |-> "idle", rows |-> << >>, current |-> 0,
            visited |-> {}, revisited |-> FALSE, result |-> ""]

\* the call, of either function (the two bodies are the same, over the
\* rows fetched before and after the write): look the resource up, return
\* None when it has no row
WalkBegin(rows, resource_id) ==
    /\ walk.pc = "idle"
    /\ walk' = IF resource_id \notin ResourceRows
               THEN [walk EXCEPT !.pc = "done", !.rows = rows,
                                 !.result = "None"]
               ELSE [walk EXCEPT !.pc = "loop", !.rows = rows,
                                 !.current = resource_id]
    /\ UNCHANGED outsideWalk

\* the loop test and one pass of the loop body
WalkStep ==
    /\ walk.pc = "loop"
    /\ walk' =
         IF ~LoopContinues(walk)
         THEN [walk EXCEPT !.pc = "done", !.result = "None"]
         ELSE LET parent == walk.rows[walk.current].parent_id
                  seen == [walk EXCEPT
                              !.visited = @ \cup {walk.current},
                              !.revisited = @ \/ walk.current \in walk.visited]
              IN  IF parent \notin ResourceRows
                  THEN [seen EXCEPT !.pc = "done", !.result = "None"]
                  ELSE IF walk.rows[parent].resource_type \in DocsRootTypes
                  THEN [seen EXCEPT !.pc = "done",
                           !.result = walk.rows[parent].resource_type]
                  ELSE [seen EXCEPT !.current = parent]
    /\ UNCHANGED outsideWalk

WalkNext ==
    \/ \E rows \in ParentGraphs, resource_id \in 1..NotFetched :
           WalkBegin(rows, resource_id)
    \/ WalkStep

-----------------------------------------------------------------------------
(***************************************************************************)
(* The specifications                                                      *)
(***************************************************************************)

Init == LoopInit /\ MailInit /\ HandlersInit /\ PrefsInit /\ NudgeInit /\ PermsInit /\ ResumeInit /\ DigestInit /\ RenewInit /\ requeues = 0 /\ FanInit /\ SendInit /\ WalkInit

Next == LoopNext

Spec == Init /\ [][Next]_vars

\* one run of the dispatch loop keeps taking its next step until it ends
\* (or its process dies)
RunStep(w) ==
    \/ Poll(w)
    \/ \E store_ok \in BOOLEAN : Claim(w, store_ok)
    \/ Dispatch(w)
    \/ Complete(w)
    \/ \E lands \in BOOLEAN : Fail(w, lands)

\* the loop over a store that may also refuse the claim insert
LoopFaultNext ==
    \/ LoopNext
    \/ \E w \in Workers : Claim(w, FALSE)

SpecRunning ==
    Init /\ [][LoopFaultNext]_vars /\ \A w \in Workers : WF_vars(RunStep(w))

SpecMail == Init /\ [][MailNext]_vars

SpecHandlers == Init /\ [][HandlersNext]_vars

SpecChat == Init /\ [][ChatNext]_vars

SpecChatRace == Init /\ [][ChatRaceNext]_vars

SpecPrefs == Init /\ [][PrefsNext]_vars

SpecNudge == Init /\ [][NudgeNext]_vars

SpecNudgeSeq == Init /\ [][NudgeSeqNext]_vars

SpecAccess == Init /\ [][AccessNext]_vars

SpecAccessEmail == Init /\ [][AccessEmailNext]_vars

SpecPerms == Init /\ [][PermsNext]_vars

SpecResume == Init /\ [][ResumeNext]_vars

SpecDigest == Init /\ [][DigestNext]_vars

SpecRenew == Init /\ [][RenewNext]_vars

SpecSend == Init /\ [][SendNext]_vars

\* a call of the function runs on until it returns
SpecWalk == Init /\ [][WalkNext]_vars /\ WF_vars(WalkStep)

SpecRequeue == Init /\ [][RequeueNext]_vars

SpecResumeFan == Init /\ [][ResumeFanNext]_vars

-----------------------------------------------------------------------------
(***************************************************************************)
(* Claims about the dispatch loop (checked under Spec)                     *)
(***************************************************************************)

\* worker w has won the claim of e and has not finalised it yet
Holds(w, e) == pc[w] \in {"dispatch", "complete", "fail"} /\ Cur(w) = e

\* C1: for every event and any overlap of dispatch-loop runs, at most one
\* mark_event_processing(event_id) returns True, so at most one worker holds
\* the event and its handler is dispatched at most once.
C1_AtMostOneClaimWins ==
    \A e \in EventIds :
        /\ claimed[e] <= 1
        /\ dispatched[e] <= 1
        /\ Cardinality({w \in Workers : Holds(w, e)}) <= 1

\* C1 witness: two runs polled the same event; one holds it, the other has
\* already tried to claim it and was refused.
C1_Witness ==
    \E e \in EventIds : \E w1, w2 \in Workers :
        /\ w1 # w2
        /\ Holds(w1, e)
        /\ pc[w2] \in {"claim", "dispatch", "complete", "fail"}
        /\ \E i \in 1..(idx[w2] - 1) : batch[w2][i] = e

C6_EveryEventFinalised ==
    \A e \in 1..appended :
        /\ (np[e] = "processing" /\ e \notin orphaned) =>
              \E w \in Workers : Holds(w, e)
        /\ np[e] \in {"completed", "failed"} => dispatched[e] = 1

-----------------------------------------------------------------------------
(***************************************************************************)
(* Claims about the email dispatchers (checked under SpecMail)             *)
(***************************************************************************)

QueuedIds == 1..Len(pending_emails)

\* the rows of user u that run w claimed
PickedUp(w, u) ==
    {id \in QueuedIds : UserOf(id) = u /\ w \in SeqToSet(owner[id])}

HourlyDone(w) == mkind[w] = "hourly" /\ mpc[w] = "done"

C8_OneDigestPerUserPerRun ==
    \A w \in MailRuns : HourlyDone(w) =>
        \A u \in Recipients :
            (PickedUp(w, u) # {} /\ u \notin skipped[w]) => digests[w][u] = 1

\* C9: when a run of the hourly dispatcher has finished, all rows of one
\* user that the run picked up are in the same terminal status: all sent
\* or all failed.
C9_GroupSameTerminalStatus ==
    \A w \in MailRuns : HourlyDone(w) =>
        \A u \in Recipients :
            \/ \A id \in PickedUp(w, u) : pending_emails[id].status = "sent"
            \/ \A id \in PickedUp(w, u) : pending_emails[id].status = "failed"

-----------------------------------------------------------------------------
(***************************************************************************)
(* Claims about the handlers (checked under SpecHandlers and SpecChat)     *)
(***************************************************************************)

HEventIds == 1..Len(hevents)

\* ids of the Notification rows with this (event_id, user_id)
NotificationsOf(e, u) ==
    {i \in 1..Len(notifications) :
        notifications[i].event_id = e /\ notifications[i].user_id = u}

\* a chat message that mentions nobody: the count-aggregating type
PlainChat(ev) ==
    ev.type = "chat_message_sent" /\ ev.mentioned_user_ids = {}

\* C2: for every event that is not a plain chat message and every user, at
\* most one Notification row with that event_id and user_id exists after
\* any sequence of executions of its handler (one after another,
\* complete or cut short by a crash).
C2_AtMostOneNotificationPerEventUser ==
    \A e \in HEventIds :
        (~PlainChat(hevents[e]) /\ e \notin overlapped) =>
            \A u \in Recipients : Cardinality(NotificationsOf(e, u)) <= 1

\* C3: at any time there is at most one PendingEmail row per
\* (event_id, user_id), whatever queue_email calls have run, one after
\* another or from overlapping executions.
C3_AtMostOnePendingEmailPerKey ==
    \A e \in HEventIds : \A u \in Recipients :
        Cardinality(RowsOf(pending_emails, e, u)) <= 1

\* C3 witness: queue_email ran for a key that already had its row, in
\* overlapping executions of the handler, and the key has one row.
C3_Witness ==
    \E e \in HEventIds : \E u \in Recipients :
        /\ <<e, u>> \in requeued
        /\ e \in overlapped
        /\ Cardinality(RowsOf(pending_emails, e, u)) = 1

\* a step that adds no row, changes no counter and no email status
SameTables ==
    /\ Len(notifications') = Len(notifications)
    /\ \A i \in 1..Len(notifications) :
            notifications'[i].count = notifications[i].count
    /\ Len(pending_emails') = Len(pending_emails)
    /\ \A i \in 1..Len(pending_emails) :
            pending_emails'[i].status = pending_emails[i].status

\* C4: while a handler runs a second time for an event it already handled
\* to the end (and nothing else runs), no step adds a Notification or
\* PendingEmail row, changes an aggregation counter or changes a
\* PendingEmail status.
C4_RerunIsNoOp ==
    [][(\E x \in Executors :
            /\ Running(x) /\ hrerun[x]
            /\ \A y \in Executors \ {x} : ~Running(y)) => SameTables]_vars

\* the plain chat messages of thread t handled so far, as user u sees them
PlainFor(u, t) ==
    {e \in HEventIds :
        /\ hevents[e].type = "chat_message_sent"
        /\ hevents[e].thread_id = t
        /\ u \in SeqToSet(hevents[e].users)
        /\ u \notin hevents[e].mentioned_user_ids
        /\ finished[e] >= 1}

\* the unread thread_activity rows of user u for thread t
ThreadActivity(u, t) ==
    {i \in Unread(notifications, u) :
        /\ notifications[i].thread_id = t
        /\ notifications[i].ntype = "thread_activity"}

\* C10: when N >= 1 plain chat messages of one thread have been handled
\* and the recipient (not muted) has read nothing, the recipient has
\* exactly one unread thread_activity row for the thread and its count
\* is N.
C10_OneUnreadRowCountsAll ==
    \A t \in Threads : \A u \in Recipients :
        (/\ Idle
         /\ ~check_user_preference(u, "thread", t, "chat_message", "in_app",
                                   Project)
         /\ PlainFor(u, t) # {}
         /\ \A i \in 1..Len(notifications) :
                notifications[i].user_id = u => ~notifications[i].read)
        => /\ Cardinality(ThreadActivity(u, t)) = 1
           /\ \A i \in ThreadActivity(u, t) :
                notifications[i].count = Cardinality(PlainFor(u, t))

-----------------------------------------------------------------------------
(***************************************************************************)
(* Claims about preference resolution (checked under SpecPrefs)            *)
(***************************************************************************)

\* indexes of the rows of the asked user that match the asked event type
\* and channel, exactly or by wildcard, at one scope
MatchingAt(scope_type, scope_id) ==
    {i \in 1..Len(prefs) :
        /\ prefs[i].user_id = lastCheck.q.user_id
        /\ prefs[i].event_type \in {lastCheck.q.event_type, "*"}
        /\ prefs[i].channel \in {lastCheck.q.channel, "*"}
        /\ prefs[i].scope_type = scope_type
        /\ scope_type # "global" => prefs[i].scope_id = scope_id}

ThreadRows == MatchingAt("thread", lastCheck.q.scope_id)
ProjectRows == MatchingAt("project", lastCheck.q.project_id)
GlobalRows == MatchingAt("global", "")

\* the answer is the status of a row of this set
DecidedBy(rows) ==
    \E i \in rows : lastCheck.muted = (prefs[i].status = "muted")

\* C11: check_user_preference decides from the most specific scope that
\* has a matching row: thread before project before global, and with no
\* matching row at any scope the answer is not muted.
C11_MostSpecificScopeDecides ==
    (lastCheck.asked /\ ~lastCheck.raised) =>
        IF ThreadRows # {} THEN DecidedBy(ThreadRows)
        ELSE IF ProjectRows # {} THEN DecidedBy(ProjectRows)
        ELSE IF GlobalRows # {} THEN DecidedBy(GlobalRows)
        ELSE ~lastCheck.muted

\* C11 witness: a mute check answered not muted by an unmuted thread row
\* although a matching project row says muted.
C11_Witness ==
    /\ lastCheck.asked /\ ~lastCheck.raised /\ ~lastCheck.muted
    /\ ThreadRows # {}
    /\ \E i \in ProjectRows : prefs[i].status = "muted"

\* C12 (fan-out half): a preference lookup that raises is answered not
\* muted. Holds under SpecPrefs.
FanOutFailsOpen == (lastCheck.asked /\ lastCheck.raised) => ~lastCheck.muted

-----------------------------------------------------------------------------
(***************************************************************************)
(* Claims about the unread-thread nudge scheduler (checked under SpecNudge)*)
(***************************************************************************)

\* C12: whenever the preference lookup raises, the mute check resolves to
\* not muted and the delivery to that user proceeds: a scheduler run that
\* has ended has inserted the nudge event of every entry whose lookup
\* raised.
C12_LookupErrorFailsOpen ==
    \A n \in NudgeRuns : npc[n] \in {"done", "failed"} =>
        \A entry \in nraised[n] :
            \E i \in 1..Len(nudgeEvents) : nudgeEvents[i] = entry

-----------------------------------------------------------------------------
(***************************************************************************)
(* Claims about uploads and permission events (checked under SpecAccess)   *)
(***************************************************************************)

\* ids of the PendingEmail rows of an event
EmailsOf(e) == {i \in 1..Len(pending_emails) : pending_emails[i].event_id = e}

\* the conditions C13 lists, but the last: candidate, can view the
\* resource, not the actor, not muted at project scope
Eligible(ev, u) ==
    /\ u \in SeqToSet(ev.users)
    /\ ev.resource_id # "" => u \in ev.can_view
    /\ u # ev.actor_id
    /\ ~check_user_preference(u, "project", Project, "document_uploaded",
                              "in_app", Project)

\* C13: with the handler's executions run one after another, no
\* document_uploaded Notification exists for a user who is not eligible,
\* and once the handler has returned every eligible user has exactly one
\* (a later execution finds it and adds none).
C13_UploadNotifiesExactlyEligible ==
    \A e \in HEventIds :
        (hevents[e].type = "document_uploaded" /\ e \notin overlapped) =>
            \A u \in AllUsers :
                LET n == Cardinality(NotificationsOf(e, u))
                IN  /\ n <= (IF Eligible(hevents[e], u) THEN 1 ELSE 0)
                    /\ finished[e] >= 1 =>
                          n = (IF Eligible(hevents[e], u) THEN 1 ELSE 0)

\* C13 witness: bob and cy are candidates who can view the resource, bob
\* muted the project, the handler returned, and the event has exactly one
\* Notification (cy's).
C13_Witness ==
    \E e \in HEventIds :
        /\ hevents[e].type = "document_uploaded"
        /\ hevents[e].resource_id # ""
        /\ {"bob", "cy"} \subseteq hevents[e].can_view
        /\ ~Eligible(hevents[e], "bob") /\ Eligible(hevents[e], "cy")
        /\ finished[e] >= 1 /\ e \notin overlapped
        /\ Cardinality({i \in 1..Len(notifications) :
                            notifications[i].event_id = e}) = 1

\* C14: no Notification and no PendingEmail has the user_id of the actor
\* of its event.
C14_ActorNeverNotified ==
    /\ \A i \in 1..Len(notifications) :
          notifications[i].user_id # hevents[notifications[i].event_id].actor_id
    /\ \A i \in 1..Len(pending_emails) :
          pending_emails[i].user_id
              # hevents[pending_emails[i].event_id].actor_id

\* C15: a project_access_changed or document_permission_changed event that
\* is not an upgrade has no Notification and no PendingEmail.
C15_DowngradeWritesNothing ==
    \A e \in HEventIds :
        (/\ hevents[e].type \in {"project_access_changed",
                                  "document_permission_changed"}
         /\ ~hevents[e].upgrade) =>
            /\ \A u \in AllUsers : NotificationsOf(e, u) = {}
            /\ EmailsOf(e) = {}

-----------------------------------------------------------------------------
(***************************************************************************)
(* Claims about update_member_permissions (checked under SpecPerms)        *)
(***************************************************************************)

\* the ancestors of a resource, nearest first
RECURSIVE AncestorsOf(_)
AncestorsOf(r) ==
    IF ResourceTree[r].parent_id = "" THEN << >>
    ELSE <<ResourceTree[r].parent_id>> \o AncestorsOf(ResourceTree[r].parent_id)

\* the nearest ancestor that is a docs root ("" when there is none)
NearestRoot(f) ==
    LET roots == SelectSeq(AncestorsOf(f), LAMBDA a :
                     ResourceTree[a].resource_type \in DocsRootTypes)
    IN  IF roots = << >> THEN "" ELSE Head(roots)

\* the effective level as the rule states it: the explicit row (none
\* included), else the level granted on the nearest root, else none
EffectiveLevel(perms, f) ==
    IF perms[f] # "" THEN perms[f]
    ELSE IF NearestRoot(f) # "" /\ perms[NearestRoot(f)] \in {"view", "edit"}
    THEN perms[NearestRoot(f)]
    ELSE "none"

\* the level of a snapshot entry; a file that is not listed has no access
Listed(level) == IF level = "" THEN "none" ELSE level

\* the member's level on the project in the store: none without a grant
\* row, edit when the docs root row says edit, else view
ProjectAccess(grants, perms) == Listed(before_grants(grants, perms))

\* granted (no access before, view or edit after) or upgraded
GrantedOrUpgraded(old, new) ==
    \/ old = "none" /\ new \in {"view", "edit"}
    \/ old = "view" /\ new = "edit"

\* the events request k inserted for an item
EventsFor(item, k) ==
    {i \in 1..Len(permEvents) :
        permEvents[i].item = item /\ permEvents[i].request = k}

\* C17: the last request inserted exactly one event for the project and
\* for each file whose access was granted or upgraded by it, and none for
\* any other item.
C17_OneEventPerGrantOrUpgrade ==
    requests > 0 =>
        /\ Cardinality(EventsFor(Project, requests)) =
             (IF GrantedOrUpgraded(
                    ProjectAccess(snap.prev_grants, snap.prev_permissions),
                    ProjectAccess(project_access_grants, permissions))
              THEN 1 ELSE 0)
        /\ \A f \in SeqToSet(Files) :
             Cardinality(EventsFor(f, requests)) =
               (IF GrantedOrUpgraded(EffectiveLevel(snap.prev_permissions, f),
                                     EffectiveLevel(permissions, f))
                THEN 1 ELSE 0)

\* C18: in the BEFORE and AFTER document snapshots of the last request the
\* level of every file is its effective level in the store at that time.
C18_SnapshotIsEffectiveLevel ==
    requests > 0 =>
        \A f \in SeqToSet(Files) :
            /\ Listed(snap.before_doc_perms[f])
                 = EffectiveLevel(snap.prev_permissions, f)
            /\ Listed(snap.after_doc_perms[f])
                 = EffectiveLevel(permissions, f)

-----------------------------------------------------------------------------
(***************************************************************************)
(* Claims about the resume nudges (checked under SpecResume)               *)
(***************************************************************************)

\* t lies in the i-th interval [threshold_i, threshold_(i+1)), the last
\* one unbounded
InInterval(i, t) ==
    /\ NUDGE_INTERVALS[i] <= t
    /\ i < Len(NUDGE_INTERVALS) => t < NUDGE_INTERVALS[i + 1]

\* C19: the tier computed by the last run is None (0) when the elapsed
\* time is below the first threshold, else the index of the one interval
\* that contains it; and no longer elapsed time gets a lower tier.
C19_TierIsTheContainingInterval ==
    lastRun.ran =>
        LET t == lastRun.elapsed
        IN  /\ t < NUDGE_INTERVALS[1] => lastRun.tier = 0
            /\ t >= NUDGE_INTERVALS[1] =>
                 /\ lastRun.tier \in 1..Len(NUDGE_INTERVALS)
                 /\ \A i \in 1..Len(NUDGE_INTERVALS) :
                      InInterval(i, t) <=> i = lastRun.tier
            /\ \A later \in TimePoints :
                 later >= t => get_nudge_tier(later) >= lastRun.tier

\* C19 witness: a run at exactly the second threshold computed tier 2.
C19_Witness ==
    /\ lastRun.ran
    /\ lastRun.elapsed = NUDGE_INTERVALS[2]
    /\ lastRun.tier = 2

\* C20: a run whose target tier is not among the nudges that survive its
\* deletion of the nudges older than the last edit inserts the nudge event
\* for that tier, and no nudge older than the last edit survives the run.
C20_EditResetsTierState ==
    (lastRun.ran /\ lastRun.tier # 0) =>
        /\ \A n \in lastRun.existing \ lastRun.deleted :
              ~(lastRun.last_edit_time > n.created_at)
        /\ (\A n \in lastRun.existing \ lastRun.deleted :
                n.nudge_tier # lastRun.tier) => lastRun.created


-----------------------------------------------------------------------------
(***************************************************************************)
(* Unread-thread nudges over executions that follow one another            *)
(* (SpecNudgeSeq)                                                          *)
(***************************************************************************)

NudgesFor(evs, u, stamp) ==
    {i \in 1..Len(evs) : evs[i].user_id = u /\ evs[i].latest_message_at = stamp}

NudgeMuted(u) ==
    nudge_check_user_preference(u, "thread", NudgeThread,
                                "thread_unread_stale", "in_app", Project)

\* the execution n ends normally in this step
NudgeRunEnds(n) == npc[n] \notin {"done", "idle"} /\ npc'[n] = "done"

-----------------------------------------------------------------------------
(***************************************************************************)
(* Sliding-window digest (SpecDigest)                                      *)
(***************************************************************************)

\* C22: a digest sent to user U for digest date D by a run that fetched
\* U's events after the marker (E, U, D) was recorded does not contain E.
C22_MarkedEventLeftOut ==
    \A d \in digestLog : d.events \cap d.known = {}

\* an event went out to bob, its marker was recorded, and a later run of
\* the same digest date has sent bob a digest of the other event
C22_Witness ==
    \E d \in digestLog :
        /\ d.user_id = "bob"
        /\ d.known # {}
        /\ d.events # {}
        /\ \E first \in digestLog :
               /\ first.user_id = "bob" /\ first.digest_date = d.digest_date
               /\ first.events \cap d.known # {}
               /\ \A i \in first.events \cap d.known :
                      domain_events[i].occurred_at \in DigestClock

-----------------------------------------------------------------------------
(***************************************************************************)
(* The loop and the outcome of dispatch_event (checked under Spec)         *)
(***************************************************************************)

\* the handler of e was called and no worker is at work on e any more
Finalised(e) ==
    /\ dispatched[e] >= 1
    /\ e \notin orphaned
    /\ \A w \in Workers : ~Holds(w, e)

\* C23: for an event whose type has no registered handler, dispatch_event
\* makes no store call and raises nothing: no notification and no pending
\* email is written for it, the loop never takes the failure path and never
\* marks it failed, and the worker that dispatched it leaves it completed.
C23_UnknownTypeIsCompletedNoOp ==
    /\ \A t \in LoopEventTypes \ handlers_map :
           dispatch_event(Event(t, <<"bob">>, "", {}, FALSE)) = << >>
    /\ \A e \in 1..appended :
           evtype[e] \notin handlers_map =>
               /\ e \notin written
               /\ np[e] # "failed"
               /\ \A w \in Workers : Holds(w, e) => pc[w] # "fail"
               /\ Finalised(e) => np[e] = "completed"

\* an event of a type without a handler was claimed, dispatched and
\* completed
C23_Witness ==
    \E e \in 1..appended :
        /\ evtype[e] \notin handlers_map
        /\ dispatched[e] = 1
        /\ Finalised(e)
        /\ np[e] = "completed"

\* C25: an event whose handler met a failing store write, or raised, ends
\* with its ProcessingRecord failed once the worker is done with it: not
\* completed, not left in processing.
C25_HandlerFailureEndsFailed ==
    \A e \in 1..appended :
        ((write_fails[e] \/ raises[e]) /\ Finalised(e)) => np[e] = "failed"

\* C28: a ProcessingRecord only moves unclaimed -> processing -> completed
\* or unclaimed -> processing -> failed; the handler is called only for an
\* event in processing by the worker whose claim returned True; completed
\* and failed are written only by that worker; a completed or failed record
\* keeps its status.
C28_RecordMovesForwardOnly ==
    [][\A e \in EventIds :
          /\ \/ np'[e] = np[e]
             \/ <<np[e], np'[e]>> \in {<<"none", "processing">>,
                                       <<"processing", "completed">>,
                                       <<"processing", "failed">>}
          /\ dispatched'[e] # dispatched[e] =>
                /\ np[e] = "processing" /\ claimed[e] = 1
                /\ \E w \in Workers : pc[w] = "dispatch" /\ Cur(w) = e
          /\ (np'[e] # np[e] /\ np'[e] \in {"completed", "failed"}) =>
                \E w \in Workers :
                    /\ Holds(w, e) /\ pc'[w] # pc[w]
                    /\ \A v \in Workers \ {w} : ~Holds(v, e)]_vars

\* one event has been completed and another failed, each by the worker
\* that claimed it, while the other worker had polled it too
C28_Witness ==
    \E e1, e2 \in 1..appended :
        /\ np[e1] = "completed" /\ np[e2] = "failed"
        /\ claimed[e1] = 1 /\ claimed[e2] = 1
        /\ \A w \in Workers : pc[w] = "done"

-----------------------------------------------------------------------------
(***************************************************************************)
(* Failures of single items (SpecMail; the loop under Spec)                *)
(***************************************************************************)

\* the rows run w holds for its current item
ItemRows(w) == SeqToSet(mclaimed[w])

LoopItemFailureIsLocal ==
    [][\A w \in Workers :
          (pc[w] = "fail" /\ pc'[w] \notin {"fail", "crashed"}) =>
              IF idx[w] < Len(batch[w])
              THEN /\ pc'[w] = "claim"
                   /\ idx'[w] = idx[w] + 1
                   /\ batch'[w] = batch[w]
              ELSE pc'[w] \in {"poll", "done"}]_vars

\* C26: every invocation of the dispatch loop ends after a bounded number
\* of batches, whatever the store holds and whatever the claim attempts
\* return: a run that is polling always reaches its end.
C26_RunTerminates ==
    \A w \in Workers : (pc[w] = "poll") ~> (pc[w] \in {"done", "crashed"})

\* C27: in a renewal the stop of the old channel comes first and the setup
\* follows whatever the stop did; a setup that succeeded leaves the
\* connection with a channel created in this run, active at the provider;
\* and by the end of the job every fetched connection had its setup
\* attempted, whatever happened to the connections before it.
C27_RenewalToleratesStopFailure ==
    /\ \A i \in 1..Len(wlog) :
           /\ wlog[i].call = "setup" =>
                  /\ i > 1
                  /\ wlog[i - 1].call = "stop"
                  /\ wlog[i - 1].conn = wlog[i].conn
           /\ wlog[i].call = "stop" =>
                  IF i < Len(wlog)
                  THEN /\ wlog[i + 1].call = "setup"
                       /\ wlog[i + 1].conn = wlog[i].conn
                  ELSE wpc = "setup" /\ wconns[wi].id = wlog[i].conn
           /\ (wlog[i].call = "setup" /\ wlog[i].ok) =>
                  /\ watch[wlog[i].conn] = wlog[i].channel
                  /\ wlog[i].channel \in live
                  /\ \A k \in 1..Len(wconns) :
                         wconns[k].watch_channel_id # wlog[i].channel
    /\ (wpc = "done" /\ ~dry_run) =>
           \A k \in 1..Len(wconns) :
               \E i \in 1..Len(wlog) :
                   wlog[i].call = "setup" /\ wlog[i].conn = wconns[k].id

\* a job over two connections: the setup of the first failed; the stop of
\* the second failed and its setup succeeded
C27_Witness ==
    /\ wpc = "done"
    /\ Len(wlog) = 4
    /\ ~wlog[2].ok
    /\ ~wlog[3].ok
    /\ wlog[4].ok
    /\ watch[wlog[4].conn] = wlog[4].channel

StatusMoves ==
    {<<"pending", "processing">>, <<"processing", "sent">>,
     <<"processing", "failed">>}

\* C29: the status of a PendingEmail row changes only pending->processing,
\* processing->sent or processing->failed, a row that is processing is
\* changed only by the run that claimed it, and a sent or failed row never
\* changes (a later queue_email for its key included).
C29_EmailStatusMovesForwardOnly ==
    [][\A id \in 1..Len(pending_emails) :
          pending_emails'[id].status # pending_emails[id].status =>
              /\ <<pending_emails[id].status, pending_emails'[id].status>>
                     \in StatusMoves
              /\ pending_emails[id].status = "processing" =>
                     \E w \in MailRuns :
                         /\ id \in ItemRows(w)
                         /\ mpc[w] = "send"
                         /\ mpc'[w] # "send" \/ gi'[w] # gi[w]]_vars

\* the case of C30: two plain messages of thread t, both for user u, each
\* handled once, nothing else posted, nothing read, u not muted
TwoPlainHandled(u, t) ==
    /\ Idle
    /\ Len(hevents) = 2
    /\ PlainFor(u, t) = {1, 2}
    /\ \A e \in {1, 2} : attempts[e] = 1
    /\ ~check_user_preference(u, "thread", t, "chat_message", "in_app",
                              Project)
    /\ \A i \in 1..Len(notifications) :
           notifications[i].user_id = u => ~notifications[i].read

\* C30: two plain chat messages of one thread handled by two workers at the
\* same time leave the recipient with what handling them one after the
\* other leaves: one unread thread_activity row whose count is 2.
C30_ConcurrentChatAggregates ==
    \A t \in Threads : \A u \in Recipients :
        TwoPlainHandled(u, t) =>
            /\ Cardinality(ThreadActivity(u, t)) = 1
            /\ \A i \in ThreadActivity(u, t) : notifications[i].count = 2

\* C31: whatever the interleaving of two overlapping executions of the
\* unread-thread scheduler, a (thread, user) has at most one
\* thread_unread_stale event per latest-message timestamp.
C31_OneNudgePerWatermarkOverlapping ==
    \A u \in Recipients, stamp \in 1..NStamp :
        Cardinality(NudgesFor(nudgeEvents, u, stamp)) <= 1

\* the nudge notifications of one tier
TierNudges(tier) == {n \in resumeNudges : n.nudge_tier = tier}

\* C32: at any time the owner has at most one resume_incomplete_nudge
\* notification per tier for the project and resume kind, also when the
\* scheduler inserted a second event for a tier before the first was
\* handled and two workers handle the two events at the same time.
C32_OneNudgePerTier ==
    \A tier \in 1..Len(NUDGE_INTERVALS) : Cardinality(TierNudges(tier)) <= 1

\* every event of digest d has its marker recorded for d's user and date
MarkersLanded(d) ==
    \A i \in d.events : <<i, d.user_id, d.digest_date>> \in email_digest_processed

\* C33: an (event, user) pair is in at most one successfully sent digest
\* across the runs of the sliding-window digest; here for two digests of a
\* user sent on different digest dates (their 24-hour windows overlap) with
\* all their markers recorded.
C33_EventInOneDigestAcrossDates ==
    \A d1 \in digestLog : \A d2 \in digestLog :
        (/\ d1.user_id = d2.user_id
         /\ d1.digest_date # d2.digest_date
         /\ MarkersLanded(d1) /\ MarkersLanded(d2))
        => d1.events \cap d2.events = {}

\* C34: no PendingEmail row belongs to a user whose preferences mute the
\* email channel for the row's event type at the scope of the project,
\* whatever the same user's in_app preference is.
C34_NoEmailWhenEmailMuted ==
    \A i \in 1..Len(pending_emails) :
        ~check_user_preference(pending_emails[i].user_id, "project", Project,
                               pending_emails[i].event_type, "email", Project)

\* C35: a call of update_member_permissions whose grant set is the
\* member's current access (the call leaves the grants and the permission
\* rows as they were) inserts no domain event, whatever levels the grant
\* holds for the resource types.
C35_IdenticalGrantEmitsNothing ==
    [][(/\ requests' = requests + 1
        /\ project_access_grants' = project_access_grants
        /\ permissions' = permissions)
       => permEvents' = permEvents]_vars

\* one day in milliseconds
DayMs == 24 * 60 * 60 * 1000

\* the elapsed days the documentation gives for tiers 1 to 4
TierDays == <<1, 3, 5, 7>>

\* C36: a run computes tier k only when at least TierDays[k] days have
\* elapsed since the reference time; below one day get_nudge_tier returns
\* None (0) and the run inserts no nudge event.
C36_TiersAtOneThreeFiveSevenDays ==
    lastRun.ran =>
        /\ \A k \in 1..Len(TierDays) :
               lastRun.tier = k => lastRun.elapsed >= TierDays[k] * DayMs
        /\ lastRun.elapsed < DayMs =>
               lastRun.tier = 0 /\ ~lastRun.created

-----------------------------------------------------------------------------
\* C37: one email costs at most MAX_RETRIES provider calls; an attempt after
\* the first follows a rate-limit error only and is preceded by a wait of
\* THROTTLE_DELAY times its number; the third rate-limited attempt ends the
\* send with a failure; no other provider error is retried.
C37_BoundedRateLimitRetry ==
    /\ snd.calls <= MAX_RETRIES
    /\ \A n \in 1..Len(snd.waits) : n > 1 => snd.waits[n] = n
    /\ (snd.pc \in {"sleep", "call"} /\ snd.attempt > 1)
           => snd.last.cls = "RateLimitError"
    /\ (snd.pc = "idle" /\ snd.calls = MAX_RETRIES
            /\ snd.last.cls = "RateLimitError") => snd.result = "False"

-----------------------------------------------------------------------------
-----------------------------------------------------------------------------
\* the store calls a handler run has planned for user u
OpsFor(plan, u) == SelectSeq(plan, LAMBDA q : q.user = u)

-----------------------------------------------------------------------------
\* C40: for every set of rows, cycles and self-parents included, a call of
\* find_root_for_resource / find_root_for_resource_after returns, and its
\* loop body runs at most once for each resource.
C40_RootWalkTerminates ==
    /\ [](~walk.revisited /\ Cardinality(walk.visited) <= NResources)
    /\ (walk.pc = "loop") ~> (walk.pc = "done")

\* a walk went round a cycle of two or more resources, came back to a
\* resource it had visited, and returned None
C40_Witness ==
    /\ walk.pc = "done"
    /\ walk.result = "None"
    /\ walk.current \in walk.visited
    /\ Cardinality(walk.visited) >= 2
    /\ \A r \in walk.visited : walk.rows[r].parent_id \in walk.visited
====
